---- MODULE Spec2Model ----
(***************************************************************************)
(* A model of the FEMU rehosting preparation engine (src/src).             *)
(*                                                                         *)
(* Paths are sequences of symbols.  The symbol "/" is the separator; every *)
(* other symbol stands for a run of non-separator characters.  Python's    *)
(* str operations used by the code (startswith, endswith, replace with a   *)
(* count of 1, os.path.basename) are modelled on these sequences.          *)
(***************************************************************************)
EXTENDS Integers, Sequences, FiniteSets, TLC

VARIABLES
    paR,        \* path algebra: the mount root handed to the translation
    paIn,       \* path algebra: the path the round trip starts from
    paOut,      \* path algebra: the value produced so far
    paDir,      \* path algebra: which round trip is run
    paPc,       \* path algebra: position in the round trip
    fs,         \* the host file system: path components -> node
    gFn,        \* guest predicate: which of the four predicates was called
    gPath,      \* guest predicate: the local variable path
    gLink,      \* guest predicate: the local variable linkTarget
    gPc,        \* guest predicate: position in the predicate's body
    gRet,       \* guest predicate: the value returned
    img,        \* prepareImage: the image as it was unpacked
    argInits,   \* prepareImage: the argument possibleInits
    procUmask,  \* prepareImage: the file mode creation mask of the process
    pc,         \* prepareImage: the call that runs next
    log,        \* prepareImage: the calls that have returned, in order
    err,        \* prepareImage: the call that raised and what it raised
    verifiedInits,  \* prepareImage: what validateInits returned
    foundServices,  \* prepareImage: what findServices returned
    inputFiles, \* main: the firmware files to process, in order
    dbIP,       \* main: the catalog host given with -sql, <<>> when none
    mIdx,       \* main: the index of the input file the loop is at
    emPc,       \* main and Emulator.run: the call that runs next
    em,         \* Emulator: the fields of the object of the current input
    imagesDir,  \* Emulator: the artifacts in <outputPath>/images
    dbConns,    \* catalog: the number of database connections opened
    outcomes,   \* main: how run() ended for each input processed so far
    emErr,      \* main: the exception that left main, <<>> when none
    scr,        \* checkArch: the call, the scratch directory and the result
    loops,      \* host tools: the loop devices and mounts of each raw image
    wk,         \* host tools: what each worker runs and where it is in it
    dbRows,     \* catalog: the rows of object and object_to_image
    reg         \* catalog: the registration of the objects of one image

paVars == <<paR, paIn, paOut, paDir, paPc>>
gVars == <<gFn, gPath, gLink, gPc, gRet>>
prVars == <<img, argInits, procUmask, pc, log, err, verifiedInits, foundServices>>

emVars == <<inputFiles, dbIP, mIdx, emPc, em, imagesDir, dbConns, outcomes, emErr>>

hoVars == <<scr, loops, wk, dbRows, reg>>

vars == <<paVars, fs, gVars, prVars, emVars, hoVars>>

----------------------------------------------------------------------------
(* Strings                                                                 *)

Slash == "/"

\* The value standing for a raised ValueError (guestUtils.py:23, :48).
ValueError == <<"ValueError">>

\* str.startswith
StartsWith(s, p) == Len(p) <= Len(s) /\ SubSeq(s, 1, Len(p)) = p

\* str.endswith
EndsWith(s, p) == Len(p) <= Len(s) /\ SubSeq(s, Len(s) - Len(p) + 1, Len(s)) = p

MinOf(S) == CHOOSE x \in S : \A y \in S : x <= y

\* The start positions of the occurrences of old in s.
Occurs(s, old) ==
    {i \in 1..(Len(s) - Len(old) + 1) : SubSeq(s, i, i + Len(old) - 1) = old}

\* str.replace(old, new, 1): the leftmost occurrence is replaced; an empty
\* old matches at the very start.
Replace1(s, old, new) ==
    IF old = <<>> THEN new \o s
    ELSE IF Occurs(s, old) = {} THEN s
    ELSE LET i == MinOf(Occurs(s, old))
         IN  SubSeq(s, 1, i - 1) \o new \o SubSeq(s, i + Len(old), Len(s))

\* All sequences over S of length 0..n.
SeqsUpTo(S, n) == UNION {[1..k -> S] : k \in 0..n}

----------------------------------------------------------------------------
(* Path algebra (guestUtils.py)                                            *)

hostToGuestPath(imagePath, path) ==
    IF ~StartsWith(imagePath, <<Slash>>) \/ ~StartsWith(path, <<Slash>>)
    THEN ValueError
    ELSE LET ip == IF EndsWith(imagePath, <<Slash>>)
                   THEN SubSeq(imagePath, 1, Len(imagePath) - 1)
                   ELSE imagePath
         IN  Replace1(path, ip, <<Slash>>)

guestToHostPath(imagePath, path) ==
    IF ~StartsWith(imagePath, <<Slash>>) \/ ~StartsWith(path, <<Slash>>)
    THEN ValueError
    ELSE LET ip == IF ~EndsWith(imagePath, <<Slash>>)
                   THEN imagePath \o <<Slash>>
                   ELSE imagePath
         IN  Replace1(path, <<Slash>>, ip)

----------------------------------------------------------------------------
(* The host file system                                                    *)
(*                                                                         *)
(* fs maps the components of a host path to the node there.  The kernel    *)
(* ignores repeated separators, so a path string is looked up by its       *)
(* components.  Every directory on the way to a node is a real directory:  *)
(* images whose directories are themselves symlinks are not modelled.      *)
(* Nothing exists on the host outside the entries of fs, so a symlink with *)
(* a guest-absolute target dangles when the host kernel resolves it.       *)

DirNode == [kind |-> "dir", val |-> <<>>]
FileNode(content) == [kind |-> "file", val |-> content]
LinkNode(target) == [kind |-> "link", val |-> target]
DevNode(type, major, minor, perms) == [kind |-> type, val |-> <<major, minor, perms>>]

\* The components of a path string.
Comps(p) == SelectSeq(p, LAMBDA c : c # Slash)

\* The path string "/n1/n2/..." of a sequence of components.
Gp(ns) == [i \in 1..(2 * Len(ns)) |-> IF i % 2 = 1 THEN Slash ELSE ns[i \div 2]]

Front(s) == SubSeq(s, 1, Len(s) - 1)

\* os.path.basename: what follows the last separator.
basename(p) ==
    LET seps == {i \in 1..Len(p) : p[i] = Slash}
    IN  IF seps = {} THEN p
        ELSE SubSeq(p, (CHOOSE i \in seps : \A j \in seps : j <= i) + 1, Len(p))

\* os.path.dirname: what precedes the last separator, "/" for a top-level name.
dirname(p) ==
    LET seps == {i \in 1..Len(p) : p[i] = Slash}
        last == CHOOSE i \in seps : \A j \in seps : j <= i
    IN  IF seps = {} THEN <<>>
        ELSE IF Comps(SubSeq(p, 1, last)) = <<>> THEN SubSeq(p, 1, last)
        ELSE SubSeq(p, 1, last - 1)

lexists(f, p) == Comps(p) \in DOMAIN f
islink(f, p) == lexists(f, p) /\ f[Comps(p)].kind = "link"
readlink(f, p) == f[Comps(p)].val

\* The bound Linux puts on the links followed in one path resolution.
MaxHostLinks == 4

\* The node the host kernel reaches from p when it follows symlinks; NoNode
\* when there is none.
NoNode == [kind |-> "none", val |-> <<>>]

RECURSIVE HostNode(_, _, _)
HostNode(f, p, fuel) ==
    IF ~lexists(f, p) THEN NoNode
    ELSE IF f[Comps(p)].kind # "link" THEN f[Comps(p)]
    ELSE IF fuel = 0 THEN NoNode
    ELSE LET t == f[Comps(p)].val
         IN  IF StartsWith(t, <<Slash>>) THEN HostNode(f, t, fuel - 1)
             ELSE HostNode(f, Gp(Front(Comps(p))) \o <<Slash>> \o t, fuel - 1)

exists(f, p) == HostNode(f, p, MaxHostLinks).kind # "none"
isfile(f, p) == HostNode(f, p, MaxHostLinks).kind = "file"
isdir(f, p) == HostNode(f, p, MaxHostLinks).kind = "dir"
getsize(f, p) == Len(HostNode(f, p, MaxHostLinks).val)

\* f with node n put at p.
Put(f, p, n) == [c \in DOMAIN f \cup {Comps(p)} |-> IF c = Comps(p) THEN n ELSE f[c]]

\* f without the node at p.
Remove(f, p) == [c \in DOMAIN f \ {Comps(p)} |-> f[c]]

\* The mount root of the image being rewritten.
Root == <<Slash, "mnt">>

----------------------------------------------------------------------------
(* Guest predicates (guestUtils.py), one statement per step                *)

HostIdle ==
    /\ scr = <<>>
    /\ loops = <<>>
    /\ wk = <<>>
    /\ dbRows = <<>>
    /\ reg = <<>>

EmulatorIdle ==
    /\ inputFiles = <<>>
    /\ dbIP = <<>>
    /\ mIdx = 0
    /\ emPc = "idle"
    /\ em = <<>>
    /\ imagesDir = <<>>
    /\ dbConns = 0
    /\ outcomes = <<>>
    /\ emErr = <<>>

PrepareIdle ==
    /\ img = <<>>
    /\ argInits = <<>>
    /\ procUmask = 0
    /\ pc = "idle"
    /\ log = <<>>
    /\ err = <<>>
    /\ verifiedInits = <<>>
    /\ foundServices = <<>>

PathIdle ==
    /\ paR = <<>>
    /\ paIn = <<>>
    /\ paOut = <<>>
    /\ paDir = "none"
    /\ paPc = "idle"

GuestFns == {"existsInGuest", "isFileInGuest", "isDirInGuest", "isFileInGuestNotEmpty"}

\* linkTarget before the loop has assigned it.
Unbound == <<"unbound">>

GuestIdle ==
    /\ gFn = "none"
    /\ gPath = <<>>
    /\ gLink = Unbound
    /\ gPc = "idle"
    /\ gRet = FALSE

\* if not path.startswith(imagePath): path = guestToHostPath(imagePath, path)
GuestCall ==
    /\ gPc = "call"
    /\ LET p == IF ~StartsWith(gPath, Root) THEN guestToHostPath(Root, gPath) ELSE gPath
       IN  IF p = ValueError
           THEN gPc' = "raised" /\ gPath' = gPath
           ELSE gPc' = "loop" /\ gPath' = p
    /\ UNCHANGED <<hoVars, paVars, prVars, emVars, fs, gFn, gLink, gRet>>

\* while os.path.islink(path): linkTarget = os.readlink(path)
GuestReadlink ==
    /\ gPc = "loop"
    /\ islink(fs, gPath)
    /\ gLink' = readlink(fs, gPath)
    /\ gPc' = "translate"
    /\ UNCHANGED <<hoVars, paVars, prVars, emVars, fs, gFn, gPath, gRet>>

\* path = guestToHostPath(imagePath, linkTarget), and back to the loop test
GuestTranslate ==
    /\ gPc = "translate"
    /\ LET p == guestToHostPath(Root, gLink)
       IN  IF p = ValueError
           THEN gPc' = "raised" /\ gPath' = gPath
           ELSE gPc' = "loop" /\ gPath' = p
    /\ UNCHANGED <<hoVars, paVars, prVars, emVars, fs, gFn, gLink, gRet>>

\* The return statement of each predicate, reached when the loop ends.
GuestReturn ==
    /\ gPc = "loop"
    /\ ~islink(fs, gPath)
    /\ gRet' = CASE gFn = "existsInGuest" -> exists(fs, gPath)
                 [] gFn = "isFileInGuest" -> isfile(fs, gPath)
                 [] gFn = "isDirInGuest" -> isdir(fs, gPath)
                 [] gFn = "isFileInGuestNotEmpty" ->
                        isfile(fs, gPath) /\ getsize(fs, gPath) > 0
    /\ gPc' = "returned"
    /\ UNCHANGED <<hoVars, paVars, prVars, emVars, fs, gFn, gPath, gLink>>

GuestNext == GuestCall \/ GuestReadlink \/ GuestTranslate \/ GuestReturn

GuestNames == {"init", "busybox", "sh"}

\* What an entry of the image's root directory may be: an empty or non-empty
\* file, a directory, a symlink to a guest-absolute target, or a symlink
\* with the relative target "busybox".
GuestNodes ==
    {FileNode(<<>>), FileNode(<<"x">>), DirNode}
        \cup {LinkNode(<<Slash, n>>) : n \in GuestNames}
        \cup {LinkNode(<<"busybox">>)}

\* The image that holds a[n] at /n for every name n.
ImageOf(a) ==
    [c \in {Comps(Root)} \cup {Comps(Root) \o <<n>> : n \in {m \in DOMAIN a : a[m] # NoNode}}
        |-> IF c = Comps(Root) THEN DirNode ELSE a[c[Len(c)]]]

GuestInit ==
    /\ PathIdle
    /\ PrepareIdle
    /\ EmulatorIdle
    /\ HostIdle
    /\ fs \in {ImageOf(a) : a \in [GuestNames -> GuestNodes \cup {NoNode}]}
    /\ gFn \in GuestFns
    /\ gPath \in {<<Slash, n>> : n \in GuestNames} \cup {Root \o <<Slash, n>> : n \in GuestNames}
    /\ gLink = Unbound
    /\ gPc = "call"
    /\ gRet = FALSE

\* A predicate runs on its caller's thread: it always takes its next step.
SpecGuest == GuestInit /\ [][GuestNext]_vars /\ WF_vars(GuestNext)

\* The element of a one-element set.  The({e : x \in {v}}) is e with x
\* naming the value v, which is written and computed once.
The(S) == CHOOSE x \in S : TRUE

\* The walk of the guest predicates as one value: where the loop ends
\* ("ok"), that guestToHostPath raised ("ValueError"), or that the loop
\* never ends ("hang": more links were followed than the image holds, so
\* one of them was met twice).
RECURSIVE Follow(_, _, _, _)
Follow(f, imagePath, path, fuel) ==
    IF ~islink(f, path) THEN [st |-> "ok", path |-> path]
    ELSE IF fuel = 0 THEN [st |-> "hang", path |-> path]
    ELSE The({ IF p = ValueError THEN [st |-> "ValueError", path |-> path]
               ELSE Follow(f, imagePath, p, fuel - 1)
             : p \in {guestToHostPath(imagePath, readlink(f, path))} })

GuestResolve(f, imagePath, path) ==
    LET p == IF ~StartsWith(path, imagePath) THEN guestToHostPath(imagePath, path) ELSE path
    IN  IF p = ValueError THEN [st |-> "ValueError", path |-> path]
        ELSE Follow(f, imagePath, p, Cardinality({c \in DOMAIN f : f[c].kind = "link"}))

\* C2: on a cyclic symlink chain the guest predicates terminate and return
\* false.
CyclicChainReturnsFalse ==
    (gPc = "loop" /\ GuestResolve(fs, Root, gPath).st = "hang")
        ~> (gPc = "returned" /\ gRet = FALSE)

\* C3: a guest predicate that meets a symlink whose raw target does not
\* start with "/" returns false and does not raise.
RelativeTargetReturnsFalse ==
    (gLink # Unbound /\ ~StartsWith(gLink, <<Slash>>)) => gPc # "raised"

----------------------------------------------------------------------------
(* Guest predicates as values.  Each returns "True" or "False", or names   *)
(* how the call ends otherwise: "ValueError" (raised by guestToHostPath)   *)
(* or "hang" (the while loop never ends).                                   *)

Bool(b) == IF b THEN "True" ELSE "False"

existsInGuest(f, imagePath, path) ==
    The({ IF w.st # "ok" THEN w.st ELSE Bool(exists(f, w.path))
        : w \in {GuestResolve(f, imagePath, path)} })

isFileInGuest(f, imagePath, path) ==
    The({ IF w.st # "ok" THEN w.st ELSE Bool(isfile(f, w.path))
        : w \in {GuestResolve(f, imagePath, path)} })

isDirInGuest(f, imagePath, path) ==
    The({ IF w.st # "ok" THEN w.st ELSE Bool(isdir(f, w.path))
        : w \in {GuestResolve(f, imagePath, path)} })

isFileInGuestNotEmpty(f, imagePath, path) ==
    The({ IF w.st # "ok" THEN w.st
          ELSE Bool(isfile(f, w.path) /\ getsize(f, w.path) > 0)
        : w \in {GuestResolve(f, imagePath, path)} })

\* readGuestLink(path, imagePath) with translateToHost=True; imagePath is
\* never empty here.
readGuestLink(f, path, imagePath) ==
    IF ~lexists(f, path) THEN path
    ELSE IF ~islink(f, path) THEN path
    ELSE guestToHostPath(imagePath, readlink(f, path))

----------------------------------------------------------------------------
(* util.py: find                                                           *)

\* A sequence that lists the elements of S once each.
RECURSIVE SetToSeq(_)
SetToSeq(S) ==
    IF S = {} THEN <<>>
    ELSE LET x == CHOOSE y \in S : TRUE
         IN  <<x>> \o SetToSeq(S \ {x})

RECURSIVE Flatten(_)
Flatten(ss) == IF ss = <<>> THEN <<>> ELSE Head(ss) \o Flatten(Tail(ss))

\* A file name is a string without separator, here a sequence of one symbol.
\* The non-directory entries called name below the directory root, as
\* os.walk reports them (a symlink counts as a file unless the host kernel
\* resolves it to a directory), each joined to the root string as given.
\* The order of several matches below one root is the order in which the
\* file system lists its directories; the images modelled hold at most one
\* match per root.
WalkFind(f, root, name) ==
    LET rc == Comps(root)
        hits == {c \in DOMAIN f :
                    /\ Len(c) > Len(rc)
                    /\ SubSeq(c, 1, Len(rc)) = rc
                    /\ <<c[Len(c)]>> = name
                    /\ ~isdir(f, Gp(c))}
        q == SetToSeq(hits)
    IN  IF ~isdir(f, root) THEN <<>>
        ELSE [i \in 1..Len(q) |-> root \o Gp(SubSeq(q[i], Len(rc) + 1, Len(q[i])))]

\* find(searchPath, fileName) for a list of roots and one name: the matches
\* root by root, or FileNotFoundError when some root does not exist.
find(f, searchPath, fileName) ==
    IF \E i \in DOMAIN searchPath : ~exists(f, searchPath[i])
    THEN [st |-> "FileNotFoundError", res |-> <<>>]
    ELSE [st |-> "ok",
          res |-> Flatten([i \in DOMAIN searchPath |-> WalkFind(f, searchPath[i], fileName)])]

----------------------------------------------------------------------------
(* prepareImage.py: initFirmadyne, validateInits                           *)

\* os.mkdir
\* os.makedirs(p, exist_ok=True) in place of os.mkdir(p): a directory that is
\* there already is accepted.
mkdirExistOk(f, p) ==
    IF isdir(f, p) THEN [st |-> "ok", fs |-> f]
    ELSE IF lexists(f, p) THEN [st |-> "FileExistsError", fs |-> f]
    ELSE IF ~isdir(f, dirname(p)) THEN [st |-> "FileNotFoundError", fs |-> f]
    ELSE [st |-> "ok", fs |-> Put(f, p, DirNode)]

\* os.mkdir(p)
mkdir(f, p) ==
    IF lexists(f, p) THEN [st |-> "FileExistsError", fs |-> f]
    ELSE IF ~isdir(f, dirname(p)) THEN [st |-> "FileNotFoundError", fs |-> f]
    ELSE [st |-> "ok", fs |-> Put(f, p, DirNode)]

\* os.symlink(target, p)
symlink(f, target, p) ==
    IF lexists(f, p) THEN [st |-> "FileExistsError", fs |-> f]
    ELSE IF ~isdir(f, dirname(p)) THEN [st |-> "FileNotFoundError", fs |-> f]
    ELSE [st |-> "ok", fs |-> Put(f, p, LinkNode(target))]

\* Where the host kernel ends when it opens p: a symlink is followed in the
\* host's name space.
RECURSIVE OpenTarget(_, _, _)
OpenTarget(f, p, fuel) ==
    IF ~islink(f, p) \/ fuel = 0 THEN p
    ELSE LET t == readlink(f, p)
         IN  IF StartsWith(t, <<Slash>>) THEN OpenTarget(f, t, fuel - 1)
             ELSE OpenTarget(f, Gp(Front(Comps(p))) \o <<Slash>> \o t, fuel - 1)

\* open(p, "w") and the writes that follow: the file holds content after.
writeFile(f, p, content) ==
    The({ IF islink(f, t) THEN [st |-> "OSError", fs |-> f]
          ELSE IF ~isdir(f, dirname(t)) THEN [st |-> "FileNotFoundError", fs |-> f]
          ELSE IF isdir(f, t) THEN [st |-> "IsADirectoryError", fs |-> f]
          ELSE [st |-> "ok", fs |-> Put(f, t, FileNode(content))]
        : t \in {OpenTarget(f, p, MaxHostLinks)} })

\* open(file.path, "w") and write(file.content) for every file of files
\* from index i on, in order.
RECURSIVE WriteEach(_, _, _)
WriteEach(f, files, i) ==
    IF i > Len(files) THEN [st |-> "ok", fs |-> f]
    ELSE The({ IF w.st # "ok" THEN w ELSE WriteEach(w.fs, files, i + 1)
             : w \in {writeFile(f, files[i].path, files[i].content)} })

\* os.remove
remove(f, p) ==
    IF ~lexists(f, p) THEN [st |-> "FileNotFoundError", fs |-> f]
    ELSE IF f[Comps(p)].kind = "dir" THEN [st |-> "IsADirectoryError", fs |-> f]
    ELSE [st |-> "ok", fs |-> Remove(f, p)]

\* os.path.join(rootPath, n1, ..., nk)
JoinPath(rootPath, ns) == rootPath \o Gp(ns)

\* os.mkdir(p) for every p of ps from index i on, in order.
RECURSIVE MkdirEach(_, _, _)
MkdirEach(f, ps, i) ==
    IF i > Len(ps) THEN [st |-> "ok", fs |-> f]
    ELSE The({ IF m.st # "ok" THEN m ELSE MkdirEach(m.fs, ps, i + 1)
             : m \in {mkdir(f, ps[i])} })

\* initFirmadyne: the three mkdir calls; any OSError becomes RuntimeError.
initFirmadyne(f, rootPath) ==
    IF ~exists(f, rootPath) THEN [st |-> "RuntimeError", fs |-> f]
    ELSE The({ [st |-> IF m.st = "ok" THEN "ok" ELSE "RuntimeError", fs |-> m.fs]
             : m \in {MkdirEach(f, << JoinPath(rootPath, <<"firmadyne">>),
                                      JoinPath(rootPath, <<"firmadyne", "libnvram">>),
                                      JoinPath(rootPath, <<"firmadyne", "libnvram.override">>) >>,
                                1)} })

LF == "\n"

PreInit == <<Slash, "firmadyne", Slash, "preInit.sh">>

\* The guest directories searched for a replacement (prepareImage.py:104).
InitLocations == <<Gp(<<"bin">>), Gp(<<"sbin">>), Gp(<<"usr", "bin">>), Gp(<<"usr", "sbin">>)>>

\* Remove duplicates without changing order (prepareImage.py:83-88).
RECURSIVE UniqueInits(_, _)
UniqueInits(possibleInits, seen) ==
    IF possibleInits = <<>> THEN <<>>
    ELSE IF Head(possibleInits) \in seen THEN UniqueInits(Tail(possibleInits), seen)
    ELSE <<Head(possibleInits)>>
            \o UniqueInits(Tail(possibleInits), seen \cup {Head(possibleInits)})

\* Lines 107-116 and 124-133: point init at the first result.
Relink(f, rootPath, initHostPath, results) ==
    The({ [st |-> l.st, fs |-> l.fs, keep |-> l.st = "ok"]
        : l \in {symlink(IF islink(f, initHostPath) THEN Remove(f, initHostPath) ELSE f,
                         hostToGuestPath(rootPath, results[1]), initHostPath)} })

\* Lines 102-116, and lines 122-133 with the name of the old target: find
\* filename below the locations and point init at the first result.
Locate(f, rootPath, initHostPath, filename) ==
    The({ IF r.st # "ok" THEN [st |-> r.st, fs |-> f, keep |-> FALSE]
          ELSE IF Len(r.res) > 0 THEN Relink(f, rootPath, initHostPath, r.res)
          ELSE [st |-> "ok", fs |-> f, keep |-> FALSE]
        : r \in {find(f, [i \in DOMAIN InitLocations |->
                              guestToHostPath(rootPath, InitLocations[i])],
                      filename)} })

\* The body of the loop over uniqueInits for one init (lines 92-133):
\* how it ends, the file system after, and whether init was appended to
\* foundInits.
ValidateOne(f, rootPath, init) ==
    The({ IF initHostPath = ValueError THEN [st |-> "ValueError", fs |-> f, keep |-> FALSE]
          ELSE IF isD \notin {"True", "False"} THEN [st |-> isD, fs |-> f, keep |-> FALSE]
          ELSE IF isD = "True" THEN [st |-> "ok", fs |-> f, keep |-> FALSE]
          ELSE IF isF \notin {"True", "False"} THEN [st |-> isF, fs |-> f, keep |-> FALSE]
          ELSE IF isF = "True" THEN [st |-> "ok", fs |-> f, keep |-> TRUE]
          ELSE The({ IF byName.st # "ok" \/ byName.keep \/ ~islink(f, initHostPath)
                     THEN byName
                     ELSE Locate(f, rootPath, initHostPath,
                                 basename(readlink(f, initHostPath)))
                   : byName \in {Locate(f, rootPath, initHostPath, basename(init))} })
        : initHostPath \in {guestToHostPath(rootPath, init)},
          isD \in {isDirInGuest(f, rootPath, init)},
          isF \in {isFileInGuest(f, rootPath, init)} })

\* The loop over uniqueInits (lines 90-133).
RECURSIVE ValidateLoop(_, _, _, _)
ValidateLoop(f, rootPath, uniqueInits, foundInits) ==
    IF uniqueInits = <<>> THEN [st |-> "ok", fs |-> f, found |-> foundInits]
    ELSE The({ IF one.st # "ok" THEN [st |-> one.st, fs |-> one.fs, found |-> foundInits]
               ELSE ValidateLoop(one.fs, rootPath, Tail(uniqueInits),
                                 IF one.keep THEN Append(foundInits, Head(uniqueInits))
                                 ELSE foundInits)
             : one \in {ValidateOne(f, rootPath, Head(uniqueInits))} })

\* f.write(f"{init}\n") for each init.
InitLines(inits) == Flatten([i \in DOMAIN inits |-> inits[i] \o <<LF>>])

\* The results of find(rootPath, n) for n in rcS, preinit, preinitMT, each
\* translated by hostToGuestPath (lines 71-74).
DefaultInits(f, rootPath) ==
    The({ IF \E i \in DOMAIN rs : rs[i].st # "ok"
          THEN [st |-> "FileNotFoundError", res |-> <<>>]
          ELSE The({ [st |-> "ok",
                      res |-> [i \in DOMAIN all |-> hostToGuestPath(rootPath, all[i])]]
                   : all \in {Flatten([i \in DOMAIN rs |-> rs[i].res])} })
        : rs \in {[i \in 1..3 |-> find(f, <<rootPath>>,
                                       <<<<"rcS">>, <<"preinit">>, <<"preinitMT">>>>[i])]} })

\* foundInits left without the fallback.
NoPreInit(foundInits) == foundInits

\* foundInits.append("/firmadyne/preInit.sh") (line 138)
AppendPreInit(foundInits) == Append(foundInits, PreInit)

\* validateInits(rootPath, suspectedInits): how it ends, the file system
\* after, and the list returned.
validateInits(f, rootPath, suspectedInits) ==
    The({ IF ex \notin {"True", "False"} THEN [st |-> ex, fs |-> f, ret |-> <<>>]
          ELSE IF ex = "True" /\ isD \notin {"True", "False"}
          THEN [st |-> isD, fs |-> f, ret |-> <<>>]
          ELSE IF defaults.st # "ok" THEN [st |-> defaults.st, fs |-> f, ret |-> <<>>]
          ELSE The({
            IF Len(possibleInits) = 0
            THEN The({ [st |-> w.st, fs |-> w.fs, ret |-> <<PreInit>>]
                     : w \in {writeFile(f, initListFile, PreInit \o <<LF>>)} })
            ELSE The({
              IF loop.st # "ok" THEN [st |-> loop.st, fs |-> loop.fs, ret |-> <<>>]
              ELSE The({ [st |-> w.st, fs |-> w.fs, ret |-> AppendPreInit(loop.found)]
                       : w \in {writeFile(loop.fs, initListFile,
                                          InitLines(AppendPreInit(loop.found)))} })
              : loop \in {ValidateLoop(f, rootPath, UniqueInits(possibleInits, {}), <<>>)} })
            : possibleInits \in
                {(IF ex = "True" /\ isD = "False"
                  THEN Append(suspectedInits, hostToGuestPath(rootPath, Gp(<<"init">>)))
                  ELSE suspectedInits) \o defaults.res} })
        : initListFile \in {JoinPath(rootPath, <<"firmadyne", "init">>)},
          ex \in {existsInGuest(f, rootPath, Gp(<<"init">>))},
          isD \in {isDirInGuest(f, rootPath, Gp(<<"init">>))},
          defaults \in {DefaultInits(f, rootPath)} })

----------------------------------------------------------------------------
(* prepareImage.py: findServices                                           *)

\* The probes of findServices in source order (lines 170-217).
ServiceTable ==
    << [path |-> Gp(<<"etc", "init.d", "uhttpd">>),
        cmd |-> Gp(<<"etc", "init.d", "uhttpd">>) \o <<" start">>,
        name |-> <<"uhttpd">>],
       [path |-> Gp(<<"usr", "bin", "httpd">>),
        cmd |-> Gp(<<"usr", "bin", "httpd">>),
        name |-> <<"httpd">>],
       [path |-> Gp(<<"usr", "sbin", "httpd">>),
        cmd |-> Gp(<<"usr", "sbin", "httpd">>),
        name |-> <<"httpd">>],
       [path |-> Gp(<<"bin", "goahead">>),
        cmd |-> Gp(<<"bin", "goahead">>),
        name |-> <<"goahead">>],
       [path |-> Gp(<<"bin", "alphapd">>),
        cmd |-> Gp(<<"bin", "alphapd">>),
        name |-> <<"alphapd">>],
       [path |-> Gp(<<"bin", "boa">>),
        cmd |-> Gp(<<"bin", "boa">>),
        name |-> <<"boa">>],
       [path |-> Gp(<<"usr", "sbin", "lighttpd">>),
        cmd |-> Gp(<<"usr", "sbin", "lighttpd">>) \o <<" -f /etc/lighttpd/lighttpd.conf">>,
        name |-> <<"lighttpd">>] >>

\* services[path] = cmd
SetItem(d, k, v) == [x \in DOMAIN d \cup {k} |-> IF x = k THEN v ELSE d[x]]

\* ProbeService with the last present entry as the primary one.
ProbeServiceLast(acc, e, present) ==
    IF ~present THEN acc
    ELSE [services |-> SetItem(acc.services, e.path, e.cmd),
          found |-> TRUE,
          name |-> e.name,
          startCommand |-> e.cmd]

\* One probe: if existsInGuest(rootPath, path): services[path] = cmd, and
\* if not found: found, name, startCommand = True, name, cmd.
ProbeService(acc, e, present) ==
    IF ~present THEN acc
    ELSE [services |-> SetItem(acc.services, e.path, e.cmd),
          found |-> TRUE,
          name |-> IF ~acc.found THEN e.name ELSE acc.name,
          startCommand |-> IF ~acc.found THEN e.cmd ELSE acc.startCommand]

RECURSIVE ProbeServices(_, _, _, _)
ProbeServices(f, rootPath, i, acc) ==
    IF i > Len(ServiceTable) THEN [st |-> "ok", acc |-> acc]
    ELSE The({ IF ex \notin {"True", "False"} THEN [st |-> ex, acc |-> acc]
               ELSE ProbeServices(f, rootPath, i + 1,
                                  ProbeService(acc, ServiceTable[i], ex = "True"))
             : ex \in {existsInGuest(f, rootPath, ServiceTable[i].path)} })

\* findServices(rootPath): how it ends, the file system after, and the map
\* returned.
findServices(f, rootPath) ==
    The({ IF p.st # "ok" THEN [st |-> p.st, fs |-> f, ret |-> <<>>]
          ELSE IF ~p.acc.found THEN [st |-> "ok", fs |-> f, ret |-> <<>>]
          ELSE The({ [st |-> w.st, fs |-> w.fs, ret |-> p.acc.services]
                   : w \in {WriteEach(f,
                                << [path |-> JoinPath(rootPath, <<"firmadyne", "service">>),
                                    content |-> p.acc.startCommand \o <<LF>>],
                                   [path |-> JoinPath(rootPath, <<"firmadyne", "service_name">>),
                                    content |-> p.acc.name \o <<LF>>] >>,
                                1)} })
        : p \in {ProbeServices(f, rootPath, 1,
                    [services |-> <<>>, found |-> FALSE, name |-> <<>>,
                     startCommand |-> <<>>])} })

----------------------------------------------------------------------------
(* prepareImage.py: fixFileSystem                                          *)

\* The directory the kernel reaches along the components c when every one
\* of them is a real directory: ".." leads to the parent, and to the host
\* root from the host root.
RECURSIVE Norm(_)
Norm(c) ==
    IF c = <<>> THEN <<>>
    ELSE IF c[Len(c)] = ".." THEN (IF Norm(Front(c)) = <<>> THEN <<>> ELSE Front(Norm(Front(c))))
    ELSE Append(Norm(Front(c)), c[Len(c)])

\* os.makedirs(p, exist_ok=True): every missing directory on the way to p
\* is created; a component that exists and is no directory raises.  The
\* host root, the directory <<>>, exists.
RECURSIVE MakedirsFrom(_, _, _)
MakedirsFrom(f, c, k) ==
    IF k > Len(c) THEN [st |-> "ok", fs |-> f]
    ELSE LET pre == Norm(SubSeq(c, 1, k))
         IN  IF pre = <<>> THEN MakedirsFrom(f, c, k + 1)
             ELSE IF pre \notin DOMAIN f
             THEN MakedirsFrom(Put(f, Gp(pre), DirNode), c, k + 1)
             ELSE IF isdir(f, Gp(pre)) THEN MakedirsFrom(f, c, k + 1)
             ELSE IF k = Len(c) THEN [st |-> "FileExistsError", fs |-> f]
             ELSE IF f[pre].kind = "link" THEN [st |-> "FileNotFoundError", fs |-> f]
             ELSE [st |-> "NotADirectoryError", fs |-> f]

makedirs(f, p) ==
    IF p = ValueError THEN [st |-> "ValueError", fs |-> f]
    ELSE MakedirsFrom(f, Comps(p), 1)

Busybox == <<Slash, "firmadyne", Slash, "busybox">>

\* Lines 443-450: the busybox links for sh.
FixBinSh(f, rootPath) ==
    The({ IF ex \notin {"True", "False"} THEN [st |-> ex, fs |-> f]
          ELSE IF ex = "True" THEN symlink(f, Busybox, firmadyneSh)
          ELSE The({ IF s1.st # "ok" THEN s1 ELSE symlink(s1.fs, Busybox, firmadyneSh)
                   : s1 \in {symlink(IF lexists(f, shPath) /\ islink(f, shPath)
                                     THEN Remove(f, shPath) ELSE f,
                                     Busybox, shPath)} })
        : ex \in {existsInGuest(f, rootPath, Gp(<<"bin", "sh">>))},
          shPath \in {guestToHostPath(rootPath, Gp(<<"bin", "sh">>))},
          firmadyneSh \in {guestToHostPath(rootPath, Gp(<<"firmadyne", "sh">>))} })

\* dirsToCreate (lines 452-473).
DirsToCreate ==
    << Gp(<<"proc">>), Gp(<<"dev", "pts">>), Gp(<<"etc_ro">>), Gp(<<"tmp">>),
       Gp(<<"var">>), Gp(<<"run">>), Gp(<<"sys">>), Gp(<<"root">>),
       Gp(<<"tmp", "var">>), Gp(<<"tmp", "media">>), Gp(<<"tmp", "etc">>),
       Gp(<<"tmp", "var", "run">>), Gp(<<"tmp", "home", "root">>), Gp(<<"tmp", "mnt">>),
       Gp(<<"tmp", "opt">>), Gp(<<"tmp", "www">>), Gp(<<"var", "run">>),
       Gp(<<"var", "lock">>), Gp(<<"usr", "bin">>), Gp(<<"usr", "sbin">>) >>

\* Lines 475-477: makedirs(readGuestLink(guestToHostPath(rootPath, d))) for
\* every d of dirs from index i on.
RECURSIVE MakeGuestDirs(_, _, _, _)
MakeGuestDirs(f, rootPath, dirs, i) ==
    IF i > Len(dirs) THEN [st |-> "ok", fs |-> f]
    ELSE The({ IF m.st # "ok" THEN m ELSE MakeGuestDirs(m.fs, rootPath, dirs, i + 1)
             : m \in {makedirs(f, readGuestLink(f, guestToHostPath(rootPath, dirs[i]),
                                                rootPath))} })

\* Lines 481-487: findDirs and recursiveGuestChmod OR the mode 0111 onto
\* the entries below every bin and sbin directory.  File modes are not part
\* of the file system modelled here, and the search starts at rootPath,
\* which exists: the step leaves the modelled state as it is.
FixPermissions(f, rootPath) ==
    IF ~exists(f, rootPath) THEN [st |-> "FileNotFoundError", fs |-> f]
    ELSE [st |-> "ok", fs |-> f]

\* The byte that ends a run of printable characters in a binary.
NUL == "NUL"

\* util.strings: the runs of printable symbols of a content.  Every run of
\* the contents modelled is at least minLength characters long.
RECURSIVE strings(_)
strings(content) ==
    LET nuls == {i \in 1..Len(content) : content[i] = NUL}
    IN  IF content = <<>> THEN <<>>
        ELSE IF nuls = {} THEN <<content>>
        ELSE LET i == MinOf(nuls)
                 rest == strings(SubSeq(content, i + 1, Len(content)))
             IN  IF i = 1 THEN rest ELSE <<SubSeq(content, 1, i - 1)>> \o rest

\* util.findStringInBinFile
findStringInBinFile(f, filePath, searchString) ==
    IF filePath = ValueError THEN "ValueError"
    ELSE IF ~exists(f, filePath) THEN "FileNotFoundError"
    ELSE LET ss == strings(HostNode(f, filePath, MaxHostLinks).val)
         IN  Bool(\E i \in DOMAIN ss : Occurs(ss[i], searchString) # {})

\* The symbols that stand for a name holding a printf directive.
FormatSymbols == {"%s", "%d", "%c"}

\* The pattern ^(/var|/etc|/tmp)(.+)/([^/]+)$ on a string: group(1) +
\* group(2) when it matches, <<>> when it does not.  (.+) is greedy, so
\* the split is at the last separator; "." matches no line feed, [^/] does.
ReferencedDir(s) ==
    LET seps == {i \in 1..Len(s) : s[i] = Slash}
        last == CHOOSE i \in seps : \A j \in seps : j <= i
    IN  IF /\ Len(s) >= 2
           /\ s[1] = Slash
           /\ s[2] \in {"var", "etc", "tmp"}
           /\ last >= 4
           /\ last < Len(s)
           /\ \A i \in 1..(last - 1) : s[i] # LF
        THEN SubSeq(s, 1, last - 1)
        ELSE <<>>

\* Line 265 without the test for /tmp/services.
IsRejectedDirFormatOnly(dirPath) ==
    \E i \in DOMAIN dirPath : dirPath[i] \in FormatSymbols

\* Line 265: the directories that are not created.
IsRejectedDir(dirPath) ==
    \/ \E i \in DOMAIN dirPath : dirPath[i] \in FormatSymbols
    \/ Occurs(dirPath, Gp(<<"tmp", "services">>)) # {}

\* The strings of the regular files below the executable locations that
\* exist, in the order the walk meets them (lines 246-259).  A symlink whose
\* target the host kernel cannot resolve fails the os.access test.
ScannedStrings(f, rootPath) ==
    The({ Flatten([i \in DOMAIN q |-> strings(f[q[i]].val)])
        : q \in {SetToSeq({c \in DOMAIN f :
                    /\ f[c].kind = "file"
                    /\ \E i \in DOMAIN InitLocations :
                          The({ /\ exists(f, loc)
                                /\ Len(c) > Len(Comps(loc))
                                /\ SubSeq(c, 1, Len(Comps(loc))) = Comps(loc)
                              : loc \in {guestToHostPath(rootPath, InitLocations[i])} })})} })

\* Lines 260-271 for the strings from index i on: how it ends, the file
\* system after, and createdDirs.
RECURSIVE CreateDirsOf(_, _, _, _, _)
CreateDirsOf(f, rootPath, ss, i, createdDirs) ==
    IF i > Len(ss) THEN [st |-> "ok", fs |-> f, dirs |-> createdDirs]
    ELSE The({
        IF dirPath = <<>> \/ IsRejectedDir(dirPath)
        THEN CreateDirsOf(f, rootPath, ss, i + 1, createdDirs)
        ELSE The({ IF m.st # "ok" THEN [st |-> m.st, fs |-> m.fs, dirs |-> createdDirs]
                   ELSE CreateDirsOf(m.fs, rootPath, ss, i + 1, createdDirs \cup {dirPath})
                 : m \in {makedirs(f, readGuestLink(f, guestToHostPath(rootPath, dirPath),
                                                    rootPath))} })
        : dirPath \in {ReferencedDir(ss[i])} })

\* The orders in which a set may be iterated.
Orders(S) ==
    {q \in [1..Cardinality(S) -> S] : \A x \in S : \E i \in DOMAIN q : q[i] = x}

\* createReferencedDirectories(rootPath): the ways it may end, one for every
\* order in which the set createdDirs is iterated when dir_log is written.
createReferencedDirectories(f, rootPath) ==
    UNION { { IF c.st # "ok" THEN [st |-> c.st, fs |-> c.fs]
              ELSE writeFile(c.fs, guestToHostPath(rootPath, Gp(<<"firmadyne", "dir_log">>)),
                             InitLines(order))
            : order \in Orders(c.dirs) }
          : c \in {CreateDirsOf(f, rootPath, ScannedStrings(f, rootPath), 1, {})} }

----------------------------------------------------------------------------
(* prepareImage.py: populateEtc, populateDev, preventReboot,               *)
(* addNvramEntries                                                         *)

\* essentials (lines 287-291).
Essentials ==
    << [path |-> Gp(<<"etc", "TZ">>), content |-> <<"EST5EDT", LF>>],
       [path |-> Gp(<<"etc", "hosts">>), content |-> <<"127.0.0.1 localhost", LF>>],
       [path |-> Gp(<<"etc", "passwd">>), content |-> <<"root::0:0:root:/root:/bin/sh", LF>>] >>

\* Lines 293-299 for the essentials from index i on.
RECURSIVE WriteEssentials(_, _, _)
WriteEssentials(f, rootPath, i) ==
    IF i > Len(Essentials) THEN [st |-> "ok", fs |-> f]
    ELSE The({
        IF ne \notin {"True", "False"} THEN [st |-> ne, fs |-> f]
        ELSE IF ne = "True" THEN WriteEssentials(f, rootPath, i + 1)
        ELSE IF fullPath = ValueError THEN [st |-> "ValueError", fs |-> f]
        ELSE The({
            IF m.st # "ok" THEN m
            ELSE The({ IF w.st # "ok" THEN w ELSE WriteEssentials(w.fs, rootPath, i + 1)
                     : w \in {writeFile(m.fs, fullPath, Essentials[i].content)} })
            : m \in {makedirs(f, dirname(fullPath))} })
        : ne \in {isFileInGuestNotEmpty(f, rootPath, Essentials[i].path)},
          fullPath \in {readGuestLink(f, guestToHostPath(rootPath, Essentials[i].path),
                                      rootPath)} })

populateEtc(f, rootPath) ==
    The({ IF m.st # "ok" THEN m ELSE WriteEssentials(m.fs, rootPath, 1)
        : m \in {makedirs(f, readGuestLink(f, guestToHostPath(rootPath, Gp(<<"etc">>)),
                                           rootPath))} })

\* a & b on the bits of two naturals.
RECURSIVE BitAnd(_, _)
BitAnd(a, b) ==
    IF a = 0 \/ b = 0 THEN 0
    ELSE (a % 2) * (b % 2) + 2 * BitAnd(a \div 2, b \div 2)

\* os.mknod(p, mode=type | perms, device=os.makedev(major, minor)): the
\* permission bits of the new node are perms & ~umask.
mknod(f, p, type, perms, major, minor, umask) ==
    IF lexists(f, p) THEN [st |-> "FileExistsError", fs |-> f]
    ELSE IF ~lexists(f, dirname(p)) THEN [st |-> "FileNotFoundError", fs |-> f]
    ELSE IF ~isdir(f, dirname(p)) THEN [st |-> "NotADirectoryError", fs |-> f]
    ELSE [st |-> "ok",
          fs |-> Put(f, p, DevNode(type, major, minor, perms - BitAnd(perms, umask)))]

\* if fileCount <= 5 (line 314)
DevThreshold == 5

\* range(11) (lines 343, 346, 350)
MtdCount == 11

\* range(4) (line 354)
TtsCount == 4

Node(path, type, perms, major, minor) ==
    [path |-> Gp(path), type |-> type, perms |-> perms, major |-> major, minor |-> minor]

\* nodesToCreate in insertion order (lines 321-355).
NodesToCreate ==
    << Node(<<"dev", "mem">>, "chr", \o660, 1, 1),
       Node(<<"dev", "kmem">>, "chr", \o640, 1, 2),
       Node(<<"dev", "null">>, "chr", \o666, 1, 3),
       Node(<<"dev", "zero">>, "chr", \o666, 1, 5),
       Node(<<"dev", "random">>, "chr", \o444, 1, 8),
       Node(<<"dev", "urandom">>, "chr", \o444, 1, 9),
       Node(<<"dev", "armem">>, "chr", \o666, 1, 13),
       Node(<<"dev", "tty">>, "chr", \o666, 5, 0),
       Node(<<"dev", "console">>, "chr", \o622, 5, 1),
       Node(<<"dev", "ptmx">>, "chr", \o666, 5, 2),
       Node(<<"dev", "tty0">>, "chr", \o622, 4, 0),
       Node(<<"dev", "ttyS0">>, "chr", \o660, 4, 64),
       Node(<<"dev", "ttyS1">>, "chr", \o660, 4, 65),
       Node(<<"dev", "ttyS2">>, "chr", \o660, 4, 66),
       Node(<<"dev", "ttyS3">>, "chr", \o660, 4, 67),
       Node(<<"dev", "adsl0">>, "chr", \o644, 100, 0),
       Node(<<"dev", "ppp">>, "chr", \o644, 108, 0),
       Node(<<"dev", "hidraw0">>, "chr", \o666, 251, 0) >>
    \o [i \in 1..MtdCount |->
            Node(<<"dev", "mtd", ToString(i - 1)>>, "chr", \o644, 90, (i - 1) * 2)]
    \o Flatten([i \in 1..MtdCount |->
            << Node(<<"dev", "mtd" \o ToString(i - 1)>>, "chr", \o644, 90, (i - 1) * 2),
               Node(<<"dev", "mtdr" \o ToString(i - 1)>>, "chr", \o644, 90, (i - 1) * 2 + 1) >>])
    \o Flatten([i \in 1..MtdCount |->
            << Node(<<"dev", "mtdblock", ToString(i - 1)>>, "blk", \o644, 31, i - 1),
               Node(<<"dev", "mtdblock" \o ToString(i - 1)>>, "blk", \o644, 31, i - 1) >>])
    \o [i \in 1..TtsCount |->
            Node(<<"dev", "tts", ToString(i - 1)>>, "chr", \o660, 4, 64 + (i - 1))]

\* Lines 357-361 for the nodes lo..hi in order: one node, or the first half
\* of them and then the rest.
RECURSIVE CreateNodes(_, _, _, _, _)
CreateNodes(f, rootPath, umask, lo, hi) ==
    IF lo > hi THEN [st |-> "ok", fs |-> f]
    ELSE IF lo < hi
    THEN The({ IF first.st # "ok" THEN first
               ELSE CreateNodes(first.fs, rootPath, umask, (lo + hi) \div 2 + 1, hi)
             : first \in {CreateNodes(f, rootPath, umask, lo, (lo + hi) \div 2)} })
    ELSE The({ IF nodePath = ValueError THEN [st |-> "ValueError", fs |-> f]
               ELSE IF lexists(f, nodePath) THEN [st |-> "ok", fs |-> f]
               ELSE mknod(f, nodePath, NodesToCreate[lo].type, NodesToCreate[lo].perms,
                          NodesToCreate[lo].major, NodesToCreate[lo].minor, umask)
             : nodePath \in {readGuestLink(f, guestToHostPath(rootPath, NodesToCreate[lo].path),
                                           rootPath)} })

\* len(os.listdir(p))
ListdirCount(f, p) ==
    Cardinality({c \in DOMAIN f :
                    Len(c) = Len(Comps(p)) + 1 /\ SubSeq(c, 1, Len(Comps(p))) = Comps(p)})

\* os.makedirs(p, exist_ok=True) for every p of ps from index i on.
RECURSIVE MakeHostDirs(_, _, _)
MakeHostDirs(f, ps, i) ==
    IF i > Len(ps) THEN [st |-> "ok", fs |-> f]
    ELSE The({ IF m.st # "ok" THEN m ELSE MakeHostDirs(m.fs, ps, i + 1)
             : m \in {makedirs(f, ps[i])} })

\* Lines 309-361: the device nodes.
PopulateNodes(f, rootPath, umask) ==
    The({
        IF m.st # "ok" THEN m
        ELSE IF ListdirCount(m.fs, devPath) > DevThreshold THEN m
        ELSE The({ IF d.st # "ok" THEN d
                   ELSE CreateNodes(d.fs, rootPath, umask, 1, Len(NodesToCreate))
                 : d \in {MakeHostDirs(m.fs,
                              << guestToHostPath(rootPath, Gp(<<"dev", "mtd">>)),
                                 guestToHostPath(rootPath, Gp(<<"dev", "mtdblock">>)),
                                 guestToHostPath(rootPath, Gp(<<"dev", "pts">>)) >>, 1)} })
        : devPath \in {readGuestLink(f, guestToHostPath(rootPath, Gp(<<"dev">>)), rootPath)},
          m \in {makedirs(f, readGuestLink(f, guestToHostPath(rootPath, Gp(<<"dev">>)),
                                           rootPath))} })

\* isFileInGuest(rootPath, p) and findStringInBinFile(readGuestLink(
\* guestToHostPath(rootPath, p), rootPath), needle)
FileHasString(f, rootPath, p, needle) ==
    The({ IF isF # "True" THEN isF
          ELSE findStringInBinFile(f, readGuestLink(f, guestToHostPath(rootPath, p), rootPath),
                                   needle)
        : isF \in {isFileInGuest(f, rootPath, p)} })

\* a or b or c (lines 365-367): whether one of the files ps, from index i
\* on, is a file in the guest that holds needle; the first call that raises
\* ends the evaluation.
RECURSIVE AnyHasString(_, _, _, _, _)
AnyHasString(f, rootPath, ps, needle, i) ==
    IF i > Len(ps) THEN "False"
    ELSE The({ IF h = "False" THEN AnyHasString(f, rootPath, ps, needle, i + 1) ELSE h
             : h \in {FileHasString(f, rootPath, ps[i], needle)} })

\* Lines 365-376: the gpio files.
PopulateGpio(f, rootPath) ==
    The({
        IF cond \notin {"True", "False"} THEN [st |-> cond, fs |-> f]
        ELSE IF cond = "False" THEN [st |-> "ok", fs |-> f]
        ELSE IF isF \notin {"True", "False"} THEN [st |-> isF, fs |-> f]
        ELSE The({
            IF r.st # "ok" THEN r
            ELSE The({ IF k.st # "ok" THEN k
                       ELSE writeFile(k.fs,
                                      guestToHostPath(rootPath, Gp(<<"dev", "gpio", "in">>)),
                                      <<"0xFF", "0xFF", "0xFF", "0xFF">>)
                     : k \in {mkdir(r.fs, guestToHostPath(rootPath, Gp(<<"dev", "gpio">>)))} })
            : r \in {IF isF = "True"
                     THEN remove(f, readGuestLink(f,
                                     guestToHostPath(rootPath, Gp(<<"dev", "gpio">>)), rootPath))
                     ELSE [st |-> "ok", fs |-> f]} })
        : cond \in {AnyHasString(f, rootPath,
                        << Gp(<<"dev", "gpio">>),
                           Gp(<<"usr", "lib", "libcm.so">>),
                           Gp(<<"usr", "lib", "libshared.so">>) >>,
                        Gp(<<"dev", "gpio", "in">>), 1)},
          isF \in {isFileInGuest(f, rootPath, Gp(<<"dev", "gpio">>))} })

populateDev(f, rootPath, umask) ==
    The({ IF n.st # "ok" THEN n ELSE PopulateGpio(n.fs, rootPath)
        : n \in {PopulateNodes(f, rootPath, umask)} })

\* Lines 393-394 for the paths from index i on.
RECURSIVE RemoveIfExists(_, _, _, _)
RemoveIfExists(f, rootPath, ps, i) ==
    IF i > Len(ps) THEN [st |-> "ok", fs |-> f]
    ELSE The({
        IF ex \notin {"True", "False"} THEN [st |-> ex, fs |-> f]
        ELSE IF ex = "False" THEN RemoveIfExists(f, rootPath, ps, i + 1)
        ELSE The({ IF r.st # "ok" THEN r ELSE RemoveIfExists(r.fs, rootPath, ps, i + 1)
                 : r \in {remove(f, guestToHostPath(rootPath, ps[i]))} })
        : ex \in {existsInGuest(f, rootPath, ps[i])} })

preventReboot(f, rootPath) ==
    RemoveIfExists(f, rootPath,
                   <<Gp(<<"sbin", "reboot">>), Gp(<<"etc", "scripts", "sys_resetbutton">>)>>, 1)

\* The rules of addNvramEntries in source order (lines 407-427).
NvramRules ==
    << [bin |-> Gp(<<"sbin", "rc">>), key |-> "ipv6_6to4_lan_ip", value |-> <<"2002:7f00:0001::">>],
       [bin |-> Gp(<<"lib", "libacos_shared.so">>), key |-> "time_zone_x", value |-> <<"0">>],
       [bin |-> Gp(<<"usr", "sbin", "httpd">>), key |-> "rip_multicast", value |-> <<"0">>],
       [bin |-> Gp(<<"usr", "sbin", "httpd">>), key |-> "bs_trustedip_enable", value |-> <<"0">>],
       [bin |-> Gp(<<"usr", "sbin", "httpd">>), key |-> "filter_rule_tbl", value |-> <<>>],
       [bin |-> Gp(<<"sbin", "acos_service">>), key |-> "rip_enable", value |-> <<"0">>] >>

\* Lines 407-427 for the rules from index i on: the keys put into entries.
RECURSIVE NvramEntries(_, _, _, _)
NvramEntries(f, rootPath, i, entries) ==
    IF i > Len(NvramRules) THEN [st |-> "ok", entries |-> entries]
    ELSE The({ IF h \notin {"True", "False"} THEN [st |-> h, entries |-> entries]
               ELSE NvramEntries(f, rootPath, i + 1,
                                 IF h = "True" THEN Append(entries, i) ELSE entries)
             : h \in {FileHasString(f, rootPath, NvramRules[i].bin, <<NvramRules[i].key>>)} })

addNvramEntries(f, rootPath) ==
    The({
        IF e.st # "ok" THEN [st |-> e.st, fs |-> f]
        ELSE The({ IF m.st # "ok" THEN m
                   ELSE WriteEach(m.fs,
                            [i \in DOMAIN e.entries |->
                                [path |-> JoinPath(dir, <<NvramRules[e.entries[i]].key>>),
                                 content |-> NvramRules[e.entries[i]].value]], 1)
                 : m \in {makedirs(f, dir)} })
        : e \in {NvramEntries(f, rootPath, 1, <<>>)},
          dir \in {guestToHostPath(rootPath, Gp(<<"firmadyne", "libnvram.override">>))} })

----------------------------------------------------------------------------
(* prepareImage.py: prepareImage, one call per step                        *)

\* The calls of prepareImage in the order of the source: prepareImage calls
\* initFirmadyne, validateInits, findServices, fixFileSystem and
\* addNvramEntries (lines 527-535); fixFileSystem runs its own steps, then
\* addEssentialFiles (populateEtc, populateDev) and preventReboot (lines
\* 443-502).
Calls ==
    << "initFirmadyne", "validateInits", "findServices",
       "fixBinSh", "createDirs", "fixPermissions", "createReferencedDirectories",
       "populateEtc", "populateDev", "preventReboot",
       "addNvramEntries" >>

\* The call that follows stage when the NVRAM entries are added before
\* fixFileSystem prevents the reboot.
NextCallNvramFirst(stage) ==
    CASE stage = "populateDev" -> "addNvramEntries"
      [] stage = "addNvramEntries" -> "preventReboot"
      [] stage = "preventReboot" -> "returned"
      [] OTHER -> LET i == CHOOSE j \in DOMAIN Calls : Calls[j] = stage
                  IN  Calls[i + 1]

\* The call that follows stage, "returned" after the last.
NextCall(stage) ==
    LET i == CHOOSE j \in DOMAIN Calls : Calls[j] = stage
    IN  IF i = Len(Calls) THEN "returned" ELSE Calls[i + 1]

\* The call at pc has ended as r tells: it returned, and the next call runs,
\* or it raised (the exception leaves prepareImage), or it never returns.
Ends(stage, r) ==
    /\ pc = stage
    /\ fs' = r.fs
    /\ IF r.st = "ok"
       THEN pc' = NextCall(stage) /\ log' = Append(log, stage) /\ err' = err
       ELSE /\ pc' = IF r.st = "hang" THEN "hung" ELSE "raised"
            /\ log' = log
            /\ err' = <<stage, r.st>>
    /\ verifiedInits' = IF stage = "validateInits" /\ r.st = "ok" THEN r.ret
                        ELSE verifiedInits
    /\ foundServices' = IF stage = "findServices" /\ r.st = "ok" THEN r.ret
                        ELSE foundServices
    /\ UNCHANGED <<hoVars, paVars, gVars, emVars, img, argInits, procUmask>>

\* Line 527
InitFirmadyne ==
    /\ pc = "initFirmadyne"
    /\ exists(fs, Root)
    /\ Ends("initFirmadyne", initFirmadyne(fs, Root))

\* Line 529
ValidateInits ==
    /\ pc = "validateInits"
    /\ Ends("validateInits", validateInits(fs, Root, argInits))

\* Line 531
FindServices ==
    /\ pc = "findServices"
    /\ Ends("findServices", findServices(fs, Root))

\* Line 533, fixFileSystem: lines 443-450
FixBinShStep ==
    /\ pc = "fixBinSh"
    /\ Ends("fixBinSh", FixBinSh(fs, Root))

\* fixFileSystem: lines 452-477
CreateDirs ==
    /\ pc = "createDirs"
    /\ Ends("createDirs", MakeGuestDirs(fs, Root, DirsToCreate, 1))

\* fixFileSystem: lines 481-487
FixPermissionsStep ==
    /\ pc = "fixPermissions"
    /\ Ends("fixPermissions", FixPermissions(fs, Root))

\* fixFileSystem: lines 490-494
CreateReferencedDirectories ==
    /\ pc = "createReferencedDirectories"
    /\ \E r \in createReferencedDirectories(fs, Root) :
          Ends("createReferencedDirectories", r)

\* fixFileSystem: lines 496-500, addEssentialFiles: line 389
PopulateEtc ==
    /\ pc = "populateEtc"
    /\ Ends("populateEtc", populateEtc(fs, Root))

\* addEssentialFiles: line 390
PopulateDev ==
    /\ pc = "populateDev"
    /\ Ends("populateDev", populateDev(fs, Root, procUmask))

\* fixFileSystem: line 502
PreventReboot ==
    /\ pc = "preventReboot"
    /\ Ends("preventReboot", preventReboot(fs, Root))

\* Lines 535-537
AddNvramEntries ==
    /\ pc = "addNvramEntries"
    /\ Ends("addNvramEntries", addNvramEntries(fs, Root))

PrepareNext ==
    \/ InitFirmadyne
    \/ ValidateInits
    \/ FindServices
    \/ FixBinShStep
    \/ CreateDirs
    \/ FixPermissionsStep
    \/ CreateReferencedDirectories
    \/ PopulateEtc
    \/ PopulateDev
    \/ PreventReboot
    \/ AddNvramEntries

\* prepareImage is called once more on the same root, after the call before
\* it has returned or raised.  img is the image as this call finds it; one
\* more call is made on an image that had no /firmadyne.
PrepareImageAgain ==
    /\ pc \in {"returned", "raised"}
    /\ Comps(JoinPath(Root, <<"firmadyne">>)) \notin DOMAIN img
    /\ img' = fs
    /\ pc' = "initFirmadyne"
    /\ log' = <<>>
    /\ err' = <<>>
    /\ verifiedInits' = <<>>
    /\ foundServices' = <<>>
    /\ UNCHANGED <<hoVars, paVars, gVars, emVars, fs, argInits, procUmask>>

SkeletonNext ==
    \/ PrepareNext
    \/ PrepareImageAgain

----------------------------------------------------------------------------
(* The images prepareImage is run on                                       *)

\* The tree that holds the entries of e below the mount root, with every
\* directory on the way to them.
Tree(e) ==
    LET leaves == {Comps(Root) \o c : c \in DOMAIN e}
        dirs == UNION {{SubSeq(c, 1, k) : k \in 1..Len(c)} : c \in leaves} \ leaves
    IN  [c \in leaves \cup dirs |->
            IF c \in leaves THEN e[SubSeq(c, Len(Comps(Root)) + 1, Len(c))] ELSE DirNode]

\* Every way to fill the slots: a slot names a guest path and what may be
\* there, NoNode for nothing.
RECURSIVE Fill(_)
Fill(slots) ==
    IF slots = <<>> THEN {<<>>}
    ELSE {IF o = NoNode THEN m ELSE SetItem(m, Head(slots).at, o) :
            m \in Fill(Tail(slots)), o \in Head(slots).opts}

Slot(at, opts) == [at |-> at, opts |-> opts]

Binary == FileNode(<<"ELF">>)

\* The directories every image modelled holds.
CoreDirs ==
    << Slot(<<"bin">>, {DirNode}),
       Slot(<<"sbin">>, {DirNode}),
       Slot(<<"usr", "sbin">>, {DirNode}),
       Slot(<<"etc", "init.d">>, {DirNode}) >>

\* A /dev the firmware ships populated: more than five entries.
ShippedDev ==
    << Slot(<<"dev", "console">>, {DevNode("chr", 5, 1, \o622)}),
       Slot(<<"dev", "null">>, {DevNode("chr", 1, 3, \o666)}),
       Slot(<<"dev", "zero">>, {DevNode("chr", 1, 5, \o666)}),
       Slot(<<"dev", "tty">>, {DevNode("chr", 5, 0, \o666)}),
       Slot(<<"dev", "ptmx">>, {DevNode("chr", 5, 2, \o666)}),
       Slot(<<"dev", "mtd0">>, {DevNode("chr", 90, 0, \o644)}) >>

\* The longest list of init candidates handed to prepareImage.
MaxInits == 2

InitCandidates ==
    {Gp(<<"sbin", "init">>), Gp(<<"etc", "init.d", "rcS">>), Gp(<<"sbin", "nothing">>)}

\* Images around the init candidates: /sbin/init may be a file or a symlink
\* to /bin/busybox, which may be absent while /usr/sbin/busybox is there;
\* /etc/init.d/rcS and /init may be files; /usr/bin may be missing.
InitImages ==
    {Tree(e) : e \in Fill(CoreDirs \o ShippedDev \o
        << Slot(<<"usr", "bin">>, {DirNode, NoNode}),
           Slot(<<"sbin", "init">>, {NoNode, Binary, LinkNode(Gp(<<"bin", "busybox">>))}),
           Slot(<<"bin", "busybox">>, {NoNode, Binary}),
           Slot(<<"usr", "sbin", "busybox">>, {NoNode, Binary}),
           Slot(<<"etc", "init.d", "rcS">>, {NoNode, Binary}),
           Slot(<<"init">>, {NoNode, Binary}) >>)}

\* A web server that reads an NVRAM key and keeps a file below /var/lib.
Httpd == FileNode(<<"rip_multicast", NUL, Slash, "var", Slash, "lib", Slash, "httpd.pid">>)

\* Images around the services: every subset of the seven service paths,
\* /etc/init.d/uhttpd also as a symlink to the absent /bin/busybox, and
\* /sbin/reboot there or not.
ServiceImages ==
    {Tree(e) : e \in Fill(CoreDirs \o ShippedDev \o
        << Slot(<<"usr", "bin">>, {DirNode}),
           Slot(<<"etc", "init.d", "uhttpd">>,
                {NoNode, Binary, LinkNode(Gp(<<"bin", "busybox">>))}),
           Slot(<<"usr", "bin", "httpd">>, {NoNode, Binary}),
           Slot(<<"usr", "sbin", "httpd">>, {NoNode, Binary, Httpd}),
           Slot(<<"bin", "goahead">>, {NoNode, Binary}),
           Slot(<<"bin", "alphapd">>, {NoNode, Binary}),
           Slot(<<"bin", "boa">>, {NoNode, Binary}),
           Slot(<<"usr", "sbin", "lighttpd">>, {NoNode, Binary}),
           Slot(<<"sbin", "reboot">>, {NoNode, Binary}) >>)}

\* The most entries /dev holds besides tts, null and gpio.
MaxDevEntries == 6

\* k entries of /dev that populateDev has no node for.
OtherDevEntries(k) ==
    [c \in {<<"dev", "fb" \o ToString(i)>> : i \in 1..k} |-> DevNode("chr", 29, 0, \o660)]

\* Images around /dev: with or without the directory /dev/tts, /dev/null
\* absent, a regular file, the declared node or a block node, /dev/gpio a
\* file that names /dev/gpio/in or absent, and up to MaxDevEntries other
\* entries.
DevImages ==
    {Tree(e @@ OtherDevEntries(k)) :
        e \in Fill(CoreDirs \o
            << Slot(<<"usr", "bin">>, {DirNode}),
               Slot(<<"dev">>, {DirNode}),
               Slot(<<"dev", "tts">>, {NoNode, DirNode}),
               Slot(<<"dev", "null">>,
                    {NoNode, Binary, DevNode("chr", 1, 3, \o666), DevNode("blk", 1, 3, \o666)}),
               Slot(<<"dev", "gpio">>, {NoNode, FileNode(Gp(<<"dev", "gpio", "in">>))}) >>),
        k \in 0..MaxDevEntries}

\* The strings the binaries of an image may hold: paths below /var, /etc
\* and /tmp, two of them in the same directory, one below /tmp/services,
\* some with a printf directive in the directory or in the file name, one
\* with no directory between the prefix and the name, one with a line feed
\* in its last component, and one outside the three prefixes.
DirStrings ==
    { Gp(<<"var", "run", "a.pid">>),
      Gp(<<"var", "run", "b.sock">>),
      Gp(<<"tmp", "services", "port">>),
      Gp(<<"etc", "%s", "conf">>),
      Gp(<<"etc", "ppp", "%d">>),
      Gp(<<"tmp", "x">>),
      Gp(<<"var", "lock", "l">>) \o <<LF, "m">>,
      Gp(<<"usr", "lib", "z", "k">>) }

\* The most strings the binary /bin/a holds.
MaxDirStrings == 2

\* The content of a binary that holds the strings ss.
BinaryOf(ss) == FileNode(Flatten([i \in DOMAIN ss |-> ss[i] \o <<NUL>>]))

\* Images around the referenced directories: /bin/a holds up to
\* MaxDirStrings of the strings, /usr/sbin/b may hold a path below /var/run
\* as well, and /var may be absent, a directory, or a regular file.
DirImages ==
    {Tree(e) : e \in Fill(CoreDirs \o ShippedDev \o
        << Slot(<<"usr", "bin">>, {DirNode}),
           Slot(<<"bin", "a">>, {BinaryOf(ss) : ss \in SeqsUpTo(DirStrings, MaxDirStrings)}),
           Slot(<<"usr", "sbin", "b">>,
                {NoNode, BinaryOf(<<Gp(<<"var", "run", "c">>), Gp(<<"etc", "ppp", "peers", "p">>)>>)}),
           Slot(<<"var">>, {NoNode, DirNode, Binary}) >>)}

\* Images around the skeleton: /firmadyne absent, a directory (empty or with
\* libnvram in it), a regular file or a symlink to /tmp.
SkeletonImages ==
    {Tree(e) : e \in Fill(CoreDirs \o ShippedDev \o
        << Slot(<<"usr", "bin">>, {DirNode}),
           Slot(<<"firmadyne">>, {NoNode, DirNode, Binary, LinkNode(Gp(<<"tmp">>))}),
           Slot(<<"sbin", "init">>, {NoNode, Binary}),
           Slot(<<"usr", "sbin", "httpd">>, {NoNode, Binary, Httpd}),
           Slot(<<"sbin", "reboot">>, {NoNode, Binary}) >>)}
      \cup
    {Tree(e) : e \in Fill(CoreDirs \o ShippedDev \o
        << Slot(<<"usr", "bin">>, {DirNode}),
           Slot(<<"firmadyne", "libnvram">>, {DirNode}),
           Slot(<<"sbin", "init">>, {NoNode, Binary}) >>)}

\* A binary that holds the keys of the three rules for /usr/sbin/httpd.
HttpdAllKeys ==
    FileNode(<<"ELF", NUL, "rip_multicast", NUL, "bs_trustedip_enable", NUL, "filter_rule_tbl">>)

\* Images around the NVRAM rules: /usr/sbin/httpd absent, a binary without
\* or with the keys, or a symlink that reaches such a binary in one or in
\* two steps (or reaches nothing); /sbin/rc, /lib/libacos_shared.so and
\* /sbin/acos_service absent or with their key.
NvramImages ==
    {Tree(e) : e \in Fill(CoreDirs \o ShippedDev \o
        << Slot(<<"usr", "bin">>, {DirNode}),
           Slot(<<"lib">>, {DirNode}),
           Slot(<<"usr", "sbin", "httpd">>,
                {NoNode, Binary, Httpd, HttpdAllKeys,
                 LinkNode(Gp(<<"usr", "sbin", "httpd.bin">>)),
                 LinkNode(Gp(<<"usr", "sbin", "httpd.link">>))}),
           Slot(<<"usr", "sbin", "httpd.link">>,
                {NoNode, LinkNode(Gp(<<"usr", "sbin", "httpd.bin">>))}),
           Slot(<<"usr", "sbin", "httpd.bin">>, {NoNode, HttpdAllKeys}),
           Slot(<<"sbin", "rc">>, {NoNode, FileNode(<<"ipv6_6to4_lan_ip">>)}),
           Slot(<<"lib", "libacos_shared.so">>, {NoNode, FileNode(<<"ELF", NUL, "time_zone_x">>)}),
           Slot(<<"sbin", "acos_service">>, {NoNode, Binary, FileNode(<<"rip_enable">>)}) >>)}

\* The umasks the process may run under.
Umasks == {0, \o022}

PrepareStart ==
    /\ PathIdle
    /\ GuestIdle
    /\ EmulatorIdle
    /\ HostIdle
    /\ fs = img
    /\ pc = "initFirmadyne"
    /\ log = <<>>
    /\ err = <<>>
    /\ verifiedInits = <<>>
    /\ foundServices = <<>>

InitsInit ==
    /\ img \in InitImages
    /\ argInits \in SeqsUpTo(InitCandidates, MaxInits)
    /\ procUmask = \o022
    /\ PrepareStart

ServicesInit ==
    /\ img \in ServiceImages
    /\ argInits = <<>>
    /\ procUmask = \o022
    /\ PrepareStart

DevInit ==
    /\ img \in DevImages
    /\ argInits = <<>>
    /\ procUmask \in Umasks
    /\ PrepareStart

DirsInit ==
    /\ img \in DirImages
    /\ argInits = <<>>
    /\ procUmask = \o022
    /\ PrepareStart

\* prepareImage runs on one thread and calls one function after the other.
SpecInits == InitsInit /\ [][PrepareNext]_vars

SpecDirs == DirsInit /\ [][PrepareNext]_vars

NvramInit ==
    /\ img \in NvramImages
    /\ argInits = <<>>
    /\ procUmask = \o022
    /\ PrepareStart

SpecNvram == NvramInit /\ [][PrepareNext]_vars

SkeletonInit ==
    /\ img \in SkeletonImages
    /\ argInits = <<>>
    /\ procUmask = \o022
    /\ PrepareStart

SpecSkeleton == SkeletonInit /\ [][SkeletonNext]_vars

SpecServices == ServicesInit /\ [][PrepareNext]_vars

SpecDev == DevInit /\ [][PrepareNext]_vars


\* Images around the essential files: /etc/TZ absent, empty, non-empty, or
\* a symlink that reaches /etc/TZ.real in one or in two steps or names the
\* absent /tmp/TZ; /etc/TZ.real absent, empty or non-empty; /etc/hosts
\* absent, empty or non-empty; /etc/passwd absent or non-empty.
EtcImages ==
    {Tree(e) : e \in Fill(CoreDirs \o ShippedDev \o
        << Slot(<<"usr", "bin">>, {DirNode}),
           Slot(<<"etc", "TZ">>,
                {NoNode, FileNode(<<>>), FileNode(<<"UTC0", LF>>),
                 LinkNode(Gp(<<"etc", "TZ.real">>)),
                 LinkNode(Gp(<<"etc", "TZ.link">>)),
                 LinkNode(Gp(<<"tmp", "TZ">>))}),
           Slot(<<"etc", "TZ.link">>, {NoNode, LinkNode(Gp(<<"etc", "TZ.real">>))}),
           Slot(<<"etc", "TZ.real">>, {NoNode, FileNode(<<>>), FileNode(<<"CET-1", LF>>)}),
           Slot(<<"etc", "hosts">>,
                {NoNode, FileNode(<<>>), FileNode(<<"10.0.0.1 router", LF>>)}),
           Slot(<<"etc", "passwd">>, {NoNode, FileNode(<<"admin::0:0::/:/bin/sh", LF>>)}) >>)}

EtcInit ==
    /\ img \in EtcImages
    /\ argInits = <<>>
    /\ procUmask = \o022
    /\ PrepareStart

SpecEtc == EtcInit /\ [][PrepareNext]_vars

\* Strings with ".." components that the binaries of an image may hold,
\* and one without.
EscapeStrings ==
    { <<Slash, "tmp", Slash, "..", Slash, "..", Slash, "x", Slash, "y">>,
      <<Slash, "var", Slash, "run", Slash, "..", Slash, "lock", Slash, "l">>,
      <<Slash, "etc", Slash, "..", Slash, "..", Slash, "..", Slash, "opt", Slash, "k">>,
      Gp(<<"tmp", "a", "b">>) }

\* Images around the strings with "..": /bin/a holds up to MaxDirStrings
\* of them, and /var may be absent.
EscapeImages ==
    {Tree(e) : e \in Fill(CoreDirs \o ShippedDev \o
        << Slot(<<"usr", "bin">>, {DirNode}),
           Slot(<<"bin", "a">>, {BinaryOf(ss) : ss \in SeqsUpTo(EscapeStrings, MaxDirStrings)}),
           Slot(<<"var">>, {NoNode, DirNode}) >>)}

EscapeInit ==
    /\ img \in EscapeImages
    /\ argInits = <<>>
    /\ procUmask = \o022
    /\ PrepareStart

SpecEscape == EscapeInit /\ [][PrepareNext]_vars
----------------------------------------------------------------------------
(* common.py, util.py: architectures, checkCompatibility, checkArch        *)

\* The members of Architecture and of Endianess in the order they are
\* declared (common.py lines 12-19 and 34-36).
Architectures ==
    <<"MIPS", "MIPS64", "ARM", "ARM64", "INTEL_80386", "X86_64", "POWERPC", "UNKNOWN">>

Endianesses == <<"LITTLE", "BIG", "UNKNOWN">>

\* identifier(): value[0] of the member, as the symbols it is made of.  A
\* symbol is a run of characters, cut so that one identifier that is part
\* of another ("MIPS" in "MIPS64") is a part of it here too.
ArchIdentifier(a) ==
    CASE a = "MIPS" -> <<"MIPS">>
      [] a = "MIPS64" -> <<"MIPS", "64">>
      [] a = "ARM" -> <<"ARM">>
      [] a = "ARM64" -> <<"ARM", "64">>
      [] a = "INTEL_80386" -> <<"INTEL", "_", "80386">>
      [] a = "X86_64" -> <<"X86", "_", "64">>
      [] a = "POWERPC" -> <<"POWERPC">>
      [] a = "UNKNOWN" -> <<"UNKNOWN">>

EndianIdentifier(e) ==
    CASE e = "LITTLE" -> <<"LSB">>
      [] e = "BIG" -> <<"MSB">>
      [] e = "UNKNOWN" -> <<"UNKNOWN">>

\* checkCompatibility with every pair of known values accepted.
checkCompatibilityAnyKnown(arch, endianess) ==
    arch # "UNKNOWN" /\ endianess # "UNKNOWN"

\* util.checkCompatibility
checkCompatibility(arch, endianess) ==
    IF arch = "UNKNOWN" \/ endianess = "UNKNOWN" THEN FALSE
    ELSE <<arch, endianess>> \in {<<"MIPS", "LITTLE">>, <<"MIPS", "BIG">>, <<"ARM", "LITTLE">>}

\* The names of line 83, with the symbols that stand for a file name that
\* starts with one of them.
PickedNames == {"busybox", "alphapd", "boa", "http", "httpd", "hydra", "helia", "webs"}

\* Lines 81-86: the members of the tarball that checkArch looks at.
IsPicked(member) ==
    /\ member.kind = "file"
    /\ \/ \E i \in 1..(Len(member.name) - 1) :
              member.name[i] = Slash /\ member.name[i + 1] \in PickedNames
       \/ Occurs(member.name, <<Slash, "sbin", Slash>>) # {}
       \/ Occurs(member.name, <<Slash, "bin", Slash>>) # {}

\* Lines 107-110: the loop variable arch is the member that matched when
\* the loop is left by break, and the last member, UNKNOWN, when it ran to
\* its end.
ArchOf(filetype) ==
    The({ IF hits = {} THEN "UNKNOWN" ELSE Architectures[MinOf(hits)]
        : hits \in {{i \in DOMAIN Architectures :
                        Occurs(filetype, ArchIdentifier(Architectures[i])) # {}}} })

\* Lines 112-115: endianess is assigned when a member matches.
EndianOf(filetype, endianess) ==
    The({ IF hits = {} THEN endianess ELSE Endianesses[MinOf(hits)]
        : hits \in {{i \in DOMAIN Endianesses :
                        Occurs(filetype, EndianIdentifier(Endianesses[i])) # {}}} })

\* Lines 102-118 for the executables from index i on.
RECURSIVE ScanExecutables(_, _, _, _)
ScanExecutables(executables, i, arch, endianess) ==
    IF i > Len(executables) THEN <<arch, endianess>>
    ELSE The({ IF a # "UNKNOWN" /\ e # "UNKNOWN" THEN <<a, e>>
               ELSE ScanExecutables(executables, i + 1, a, e)
             : a \in {ArchOf(executables[i].filetype)},
               e \in {EndianOf(executables[i].filetype, endianess)} })

\* util.checkArch(tarballPath, tempDirID): tarfile.open raises on a path
\* that is no tarball.
checkArch(tarball) ==
    IF tarball.kind # "file" THEN [st |-> "IsADirectoryError"]
    ELSE [st |-> "ok",
          ret |-> ScanExecutables(SelectSeq(tarball.members, IsPicked), 1,
                                  "UNKNOWN", "UNKNOWN")]

----------------------------------------------------------------------------
(* emulator.py: inferKernelVersion                                         *)

\* The symbols for "Linux version", a blank and "init=".
LinuxVersion == "Linux version"
SP == " "
InitEq == "init="

IndexError == <<"IndexError">>

\* s.split(sep)[0]
SplitFirst(s, sep) ==
    IF Occurs(s, sep) = {} THEN s ELSE SubSeq(s, 1, MinOf(Occurs(s, sep)) - 1)

\* s.split(sep)[1]: IndexError when sep is not in s.
SplitSecond(s, sep) ==
    IF Occurs(s, sep) = {} THEN IndexError
    ELSE SplitFirst(SubSeq(s, MinOf(Occurs(s, sep)) + Len(sep), Len(s)), sep)

\* string.split(marker)[1].split(" ")[0]
TokenAfter(string, marker) ==
    The({ IF t = IndexError THEN IndexError ELSE SplitFirst(t, <<SP>>)
        : t \in {SplitSecond(string, marker)} })

\* Lines 213-224 for one string: k holds the four fields.
ScanString(k, string) ==
    IF Occurs(string, <<LinuxVersion>>) # {}
    THEN The({ IF temp = IndexError THEN [k EXCEPT !.st = "IndexError"]
               ELSE IF temp # <<>>
               THEN [k EXCEPT !.kernelVersion = temp, !.kernelVersionString = string]
               ELSE k
             : temp \in {TokenAfter(string, <<LinuxVersion, SP>>)} })
    ELSE IF Occurs(string, <<InitEq>>) # {}
    THEN The({ IF temp # <<>>
               THEN [k EXCEPT !.inferredKernelInit = Append(@, temp),
                              !.inferredKernelInitStrings = Append(@, string)]
               ELSE k
             : temp \in {TokenAfter(string, <<InitEq>>)} })
    ELSE k

\* The loop of line 212 over the strings from index i on.
RECURSIVE ScanKernel(_, _, _)
ScanKernel(k, ss, i) ==
    IF i > Len(ss) \/ k.st # "ok" THEN k
    ELSE ScanKernel(ScanString(k, ss[i]), ss, i + 1)

----------------------------------------------------------------------------
(* util.py, emulator.py: the catalog operations                            *)

\* What the database does when an operation turns to it: it serves the
\* operation, refuses the connection, or fails the first statement.
DbOutcomes == {"ok", "connectFails", "executeFails"}

\* Emulator.detectBrand: one connection; no exception is caught.
detectBrand(host, db) ==
    IF db = "ok" THEN [st |-> "ok", ret |-> "unknown", conns |-> 1]
    ELSE [st |-> "OperationalError", ret |-> "unknown", conns |-> 1]

\* Emulator.__init__ lines 47-52 with brand "auto": the brand is looked up
\* when a host is given.
BrandLookup(host, db) ==
    IF host = <<>> THEN [st |-> "ok", ret |-> "unknown", conns |-> 0]
    ELSE detectBrand(host, db)

\* Emulator.updateDbImageInfo: the connection is opened outside the try,
\* a statement that fails is rolled back and reported as False.
updateDbImageInfo(host, iid, db) ==
    IF host = <<>> THEN [st |-> "ok", ret |-> "True", conns |-> 0]
    ELSE IF iid = <<>> THEN [st |-> "ok", ret |-> "False", conns |-> 0]
    ELSE IF db = "connectFails" THEN [st |-> "OperationalError", ret |-> "None", conns |-> 1]
    ELSE IF db = "executeFails" THEN [st |-> "ok", ret |-> "False", conns |-> 1]
    ELSE [st |-> "ok", ret |-> "True", conns |-> 1]

\* util.getObjectIds with addMissing=True.  The host is not looked at.  The
\* query binds one string that holds every hash in quotes, which is the
\* hash of no object, so every hash is missing and createNewObjects opens
\* a second connection.
getObjectIds(fileList, host, db) ==
    IF fileList = <<>> THEN [st |-> "ok", ret |-> "True", conns |-> 0]
    ELSE IF db # "ok" THEN [st |-> "OperationalError", ret |-> "None", conns |-> 1]
    ELSE [st |-> "ok", ret |-> "True", conns |-> 2]

\* util.insertObjectsToImage: objectIds holds an id for every file of
\* fileList.
insertObjectsToImage(fileList, host, db) ==
    IF fileList = <<>> THEN [st |-> "ok", ret |-> "None", conns |-> 0]
    ELSE IF db # "ok" THEN [st |-> "OperationalError", ret |-> "None", conns |-> 1]
    ELSE [st |-> "ok", ret |-> "None", conns |-> 1]

\* util.insertLinksToImage
insertLinksToImage(links, host, db) ==
    IF links = <<>> THEN [st |-> "ok", ret |-> "None", conns |-> 0]
    ELSE IF db # "ok" THEN [st |-> "OperationalError", ret |-> "None", conns |-> 1]
    ELSE [st |-> "ok", ret |-> "None", conns |-> 1]

\* util.getFilesInfo and util.getLinksInfo: the regular files and the
\* symlinks of the tarball.
IsRegular(member) == member.kind = "file"
IsSymlink(member) == member.kind = "link"
getFilesInfo(tarball) == SelectSeq(tarball.members, IsRegular)
getLinksInfo(tarball) == SelectSeq(tarball.members, IsSymlink)

\* Emulator.dumpObjectsToDB: True without a host, False without iid or
\* filesystemPath; after the four calls the method ends without a return
\* statement, so it returns None.
dumpObjectsToDB(host, e, tarball, db) ==
    IF host = <<>> THEN [st |-> "ok", ret |-> "True", conns |-> 0]
    ELSE IF e.iid = <<>> \/ e.filesystemPath = <<>>
    THEN [st |-> "ok", ret |-> "False", conns |-> 0]
    ELSE The({
        IF g.st # "ok" THEN g
        ELSE IF o.st # "ok" THEN [o EXCEPT !.conns = g.conns + o.conns]
        ELSE IF l.st # "ok" THEN [l EXCEPT !.conns = g.conns + o.conns + l.conns]
        ELSE [st |-> "ok", ret |-> "None", conns |-> g.conns + o.conns + l.conns]
        : g \in {getObjectIds(getFilesInfo(tarball), host, db)},
          o \in {insertObjectsToImage(getFilesInfo(tarball), host, "ok")},
          l \in {insertLinksToImage(getLinksInfo(tarball), host, "ok")} })

----------------------------------------------------------------------------
(* emulator.py: the methods of Emulator                                    *)

\* The fields __init__ sets (lines 55-65).
NewEmulator(brand) ==
    [ brand |-> brand, iid |-> <<>>, kernelPath |-> <<>>, filesystemPath |-> <<>>,
      architecture |-> "UNKNOWN", endianess |-> "UNKNOWN",
      kernelVersion |-> <<>>, kernelVersionString |-> <<>>,
      inferredKernelInit |-> <<>>, inferredKernelInitStrings |-> <<>> ]

\* The external extractor on the firmware fw: the first element of what it
\* returns, and the artifact it leaves in the images directory when it
\* succeeds.
Extractor(fw, what) ==
    IF what = "filesystem"
    THEN [status |-> fw.fsStatus, tag |-> fw.tag,
          path |-> <<"images", fw.tag, "rootfs">>, artifact |-> fw.rootfs]
    ELSE [status |-> fw.kStatus, tag |-> fw.tag,
          path |-> <<"images", fw.tag, "kernel">>, artifact |-> FileNode(fw.kernel)]

\* shutil.rmtree(path, ignore_errors=True): a directory is removed with what
\* is in it; on a regular file the call fails and the failure is ignored.
rmtree(dir, path) ==
    IF path \in DOMAIN dir /\ dir[path].kind = "dir"
    THEN [q \in DOMAIN dir \ {path} |-> dir[q]]
    ELSE dir

\* Emulator.extract
extract(e, fw, dir) ==
    The({
        IF ~r1.status THEN [ret |-> "False", em |-> [e EXCEPT !.iid = r1.tag], dir |-> dir]
        ELSE IF ~r2.status
        THEN [ret |-> "False",
              em |-> [e EXCEPT !.iid = r1.tag, !.filesystemPath = r1.path],
              dir |-> rmtree(SetItem(dir, r1.path, r1.artifact), r1.path)]
        ELSE [ret |-> "True",
              em |-> [e EXCEPT !.iid = r1.tag, !.filesystemPath = r1.path,
                               !.kernelPath = r2.path],
              dir |-> SetItem(SetItem(dir, r1.path, r1.artifact), r2.path, r2.artifact)]
        : r1 \in {Extractor(fw, "filesystem")}, r2 \in {Extractor(fw, "kernel")} })

\* Emulator.inferArchitecture
inferArchitecture(e, dir, host, db) ==
    IF e.iid = <<>> \/ e.filesystemPath = <<>>
    THEN [st |-> "ok", ret |-> "False", em |-> e, conns |-> 0]
    ELSE The({
        IF c.st # "ok" THEN [st |-> c.st, ret |-> "None", em |-> e, conns |-> 0]
        ELSE IF c.ret[1] = "UNKNOWN" \/ c.ret[2] = "UNKNOWN"
        THEN [st |-> "ok", ret |-> "False",
              em |-> [e EXCEPT !.architecture = c.ret[1], !.endianess = c.ret[2]],
              conns |-> 0]
        ELSE The({ [st |-> u.st, ret |-> IF u.st = "ok" THEN "True" ELSE "None",
                    em |-> [e EXCEPT !.architecture = c.ret[1], !.endianess = c.ret[2]],
                    conns |-> u.conns]
                 : u \in {updateDbImageInfo(host, e.iid, db)} })
        : c \in {checkArch(dir[e.filesystemPath])} })

\* Emulator.inferKernelVersion
inferKernelVersion(e, dir, host, db) ==
    IF e.kernelPath = <<>> THEN [st |-> "ok", ret |-> "False", em |-> e, conns |-> 0]
    ELSE The({
        IF k.st # "ok" THEN [st |-> k.st, ret |-> "None", em |-> e, conns |-> 0]
        ELSE The({
            IF k.kernelVersion = <<>>
            THEN [st |-> "ok", ret |-> "False", em |-> e1, conns |-> 0]
            ELSE The({ [st |-> u.st, ret |-> IF u.st = "ok" THEN "True" ELSE "None",
                        em |-> e1, conns |-> u.conns]
                     : u \in {updateDbImageInfo(host, e.iid, db)} })
            : e1 \in {[e EXCEPT !.kernelVersion = k.kernelVersion,
                               !.kernelVersionString = k.kernelVersionString,
                               !.inferredKernelInit = k.inferredKernelInit,
                               !.inferredKernelInitStrings = k.inferredKernelInitStrings]} })
        : k \in {ScanKernel([st |-> "ok",
                             kernelVersion |-> e.kernelVersion,
                             kernelVersionString |-> e.kernelVersionString,
                             inferredKernelInit |-> e.inferredKernelInit,
                             inferredKernelInitStrings |-> e.inferredKernelInitStrings],
                            strings(dir[e.kernelPath].val), 1)} })

\* Emulator.collectInfo: a kernel version that is not found is a warning.
collectInfo(e, dir, host, dbArch, dbKernel) ==
    IF e.iid = <<>> \/ e.kernelPath = <<>> \/ e.filesystemPath = <<>>
    THEN [st |-> "ok", ret |-> "False", em |-> e, conns |-> 0]
    ELSE The({
        IF a.st # "ok" \/ a.ret = "False" THEN a
        ELSE The({ [st |-> k.st, ret |-> IF k.st = "ok" THEN "True" ELSE "None",
                    em |-> k.em, conns |-> a.conns + k.conns]
                 : k \in {inferKernelVersion(a.em, dir, host, dbKernel)} })
        : a \in {inferArchitecture(e, dir, host, dbArch)} })

----------------------------------------------------------------------------
(* main.py, emulator.py: main and Emulator.run, one call per step          *)

\* run() has returned from the statement named by label: main goes on to
\* the next input file.
RunReturns(label) ==
    /\ outcomes' = Append(outcomes, label)
    /\ mIdx' = mIdx + 1
    /\ emPc' = IF mIdx = Len(inputFiles) THEN "exited" ELSE "construct"
    /\ emErr' = emErr

\* An exception leaves run() or __init__: nothing in main catches it.
MainRaises(where, what) ==
    /\ emPc' = "raised"
    /\ emErr' = <<where, what>>
    /\ UNCHANGED <<outcomes, mIdx>>

\* main lines 58-67: the Emulator for the next input file.  With brand
\* "auto" the brand is looked up when a catalog host is given.
Construct ==
    /\ emPc = "construct"
    /\ mIdx <= Len(inputFiles)
    /\ \E db \in IF dbIP = <<>> THEN {"ok"} ELSE DbOutcomes :
        \E b \in {BrandLookup(dbIP, db)} :
            /\ dbConns' = dbConns + b.conns
            /\ IF b.st = "ok"
               THEN /\ em' = NewEmulator(b.ret)
                    /\ emPc' = "extract"
                    /\ UNCHANGED <<outcomes, mIdx, emErr>>
               ELSE /\ em' = em
                    /\ MainRaises("__init__", b.st)
    /\ UNCHANGED <<hoVars, paVars, gVars, prVars, fs, inputFiles, dbIP, imagesDir>>

\* run() lines 324-326
Extract ==
    /\ emPc = "extract"
    /\ \E r \in {extract(em, inputFiles[mIdx], imagesDir)} :
            /\ em' = r.em
            /\ imagesDir' = r.dir
            /\ IF r.ret = "True"
               THEN emPc' = "collectInfo" /\ UNCHANGED <<outcomes, mIdx, emErr>>
               ELSE RunReturns("extract")
    /\ UNCHANGED <<hoVars, paVars, gVars, prVars, fs, inputFiles, dbIP, dbConns>>

\* run() lines 328-330
CollectInfo ==
    /\ emPc = "collectInfo"
    /\ \E dbArch \in IF dbIP = <<>> THEN {"ok"} ELSE DbOutcomes :
       \E dbKernel \in IF dbIP = <<>> THEN {"ok"} ELSE DbOutcomes :
        \E r \in {collectInfo(em, imagesDir, dbIP, dbArch, dbKernel)} :
            /\ em' = r.em
            /\ dbConns' = dbConns + r.conns
            /\ IF r.st # "ok" THEN MainRaises("collectInfo", r.st)
               ELSE IF r.ret = "True"
               THEN emPc' = "checkCompatibility" /\ UNCHANGED <<outcomes, mIdx, emErr>>
               ELSE RunReturns("collectInfo")
    /\ UNCHANGED <<hoVars, paVars, gVars, prVars, fs, inputFiles, dbIP, imagesDir>>

\* run() lines 332-334
CheckCompatibility ==
    /\ emPc = "checkCompatibility"
    /\ IF checkCompatibility(em.architecture, em.endianess)
       THEN emPc' = "dumpObjectsToDB" /\ UNCHANGED <<outcomes, mIdx, emErr>>
       ELSE RunReturns("checkCompatibility")
    /\ UNCHANGED <<hoVars, paVars, gVars, prVars, fs, inputFiles, dbIP, em, imagesDir, dbConns>>

\* run() lines 336-349: after dumpObjectsToDB only the state is logged; the
\* calls that build the image are comments.
DumpObjectsToDB ==
    /\ emPc = "dumpObjectsToDB"
    /\ \E db \in IF dbIP = <<>> THEN {"ok"} ELSE DbOutcomes :
        \E r \in {dumpObjectsToDB(dbIP, em, imagesDir[em.filesystemPath], db)} :
            /\ dbConns' = dbConns + r.conns
            /\ IF r.st # "ok" THEN MainRaises("dumpObjectsToDB", r.st)
               ELSE IF r.ret = "True" THEN RunReturns("end")
               ELSE RunReturns("dumpObjectsToDB")
    /\ UNCHANGED <<hoVars, paVars, gVars, prVars, fs, inputFiles, dbIP, em, imagesDir>>

MainNext ==
    \/ Construct
    \/ Extract
    \/ CollectInfo
    \/ CheckCompatibility
    \/ DumpObjectsToDB

----------------------------------------------------------------------------
(* The firmware main is run on                                             *)

\* What file(1) prints for an executable, as the symbols the identifiers
\* are looked for in.
FileOutputs ==
    [ mipsel |-> <<"ELF", " 32-bit ", "LSB", " executable, ", "MIPS", ", ", "MIPS", "32", " rel2">>,
      mipseb |-> <<"ELF", " 32-bit ", "MSB", " executable, ", "MIPS", ", ", "MIPS", "32", " rel2">>,
      mips64 |-> <<"ELF", " 64-bit ", "MSB", " executable, ", "MIPS", ", ", "MIPS", "64", " rel2">>,
      armel  |-> <<"ELF", " 32-bit ", "LSB", " executable, ", "ARM", ", EABI5">>,
      armeb  |-> <<"ELF", " 32-bit ", "MSB", " executable, ", "ARM", ", EABI5">>,
      arm64  |-> <<"ELF", " 64-bit ", "LSB", " executable, ", "ARM", " aarch64">>,
      x86_64 |-> <<"ELF", " 64-bit ", "LSB", " executable, ", "x86", "-", "64">>,
      i386   |-> <<"ELF", " 32-bit ", "LSB", " executable, ", "Intel", " ", "80386">>,
      ppc    |-> <<"ELF", " 32-bit ", "MSB", " executable, ", "PowerPC", " or cisco 4500">>,
      script |-> <<"POSIX shell script, ASCII text executable">> ]

\* A member of the rootfs tarball.
Member(name, kind, filetype) == [name |-> name, kind |-> kind, filetype |-> filetype]

\* A tarball with /bin/sh of the type t, and a symlink.
TarballOf(t) ==
    [kind |-> "file",
     members |-> << Member(<<".", Slash, "etc", Slash, "passwd">>, "file", <<"ASCII text">>),
                    Member(<<".", Slash, "bin", Slash, "sh">>, "file", FileOutputs[t]),
                    Member(<<".", Slash, "sbin", Slash, "init">>, "link", <<>>) >>]

\* The rootfs artifacts the extractor may leave: a tarball with /bin/sh of
\* one type, one where a script comes before a MIPS busybox, one without
\* any executable, one without any member, and a directory.
Rootfses ==
    {TarballOf(t) : t \in DOMAIN FileOutputs}
      \cup
    { [kind |-> "file",
       members |-> << Member(<<".", Slash, "bin", Slash, "run.sh">>, "file", FileOutputs.script),
                      Member(<<".", Slash, "usr", Slash, "busybox">>, "file", FileOutputs.mipsel) >>],
      [kind |-> "file",
       members |-> << Member(<<".", Slash, "etc", Slash, "passwd">>, "file", <<"ASCII text">>) >>],
      [kind |-> "file", members |-> <<>>],
      [kind |-> "dir", members |-> <<>>] }

\* The strings a kernel may hold.
KernelStrings ==
    { <<LinuxVersion, SP, "2.6.31", SP, "(builder@host)">>,
      <<LinuxVersion, SP, "3.10.14", SP, "#1">>,
      <<"console=ttyS0", SP, InitEq, "/sbin/init", SP, "rw">>,
      <<InitEq, "/etc/preinit">>,
      <<LinuxVersion, SP, "2.6.36", SP, InitEq, "/linuxrc">>,
      <<InitEq, SP, "quiet">>,
      <<LinuxVersion>>,
      <<"Booting", SP, "Linux">> }

\* The kernel of the firmware in a directory of inputs.
Kernel ==
    BinaryOf(<< <<LinuxVersion, SP, "2.6.31", SP, "(builder@host)">>,
                <<InitEq, "/etc/preinit">> >>).val

\* A firmware blob: what the extractor makes of it.
Firmware(tag, fsStatus, rootfs, kStatus, kernel) ==
    [tag |-> tag, fsStatus |-> fsStatus, rootfs |-> rootfs, kStatus |-> kStatus, kernel |-> kernel]

\* The firmware with the tag tag: the extractor fails on it, finds no
\* kernel in it, or finds a rootfs and a kernel.
Firmwares(tag) ==
    {Firmware(tag, FALSE, [kind |-> "file", members |-> <<>>], FALSE, <<>>)}
      \cup {Firmware(tag, TRUE, r, FALSE, <<>>) : r \in Rootfses}
      \cup {Firmware(tag, TRUE, r, TRUE, Kernel) : r \in Rootfses}

\* The most input files the directory given to main holds.
MaxInputs == 2

\* The most strings of the kernel scanned.
MaxKernelStrings == 3

\* The catalog hosts main may be given.
Hosts == {<<>>, <<"10.0.0.5">>}

MainStart ==
    /\ PathIdle
    /\ HostIdle
    /\ GuestIdle
    /\ PrepareIdle
    /\ fs = <<>>
    /\ mIdx = 1
    /\ emPc = "construct"
    /\ em = <<>>
    /\ imagesDir = <<>>
    /\ dbConns = 0
    /\ outcomes = <<>>
    /\ emErr = <<>>

\* main on a directory of one to MaxInputs files.
MainInit ==
    /\ \E n \in 1..MaxInputs :
          inputFiles \in {q \in [1..n -> UNION {Firmwares(<<ToString(i)>>) : i \in 1..n}] :
                            \A i \in 1..n : q[i].tag = <<ToString(i)>>}
    /\ dbIP \in Hosts
    /\ MainStart

\* main on one file whose kernel holds up to MaxKernelStrings strings.
KernelInit ==
    /\ \E ss \in SeqsUpTo(KernelStrings, MaxKernelStrings) :
          inputFiles = <<Firmware(<<"1">>, TRUE, TarballOf("mipsel"), TRUE, BinaryOf(ss).val)>>
    /\ dbIP \in Hosts
    /\ MainStart

\* main runs on one thread: one Emulator after the other, one call of run()
\* after the other.
SpecMain == MainInit /\ [][MainNext]_vars

SpecKernel == KernelInit /\ [][MainNext]_vars


\* The most executables of the rootfs checkArch scans.
MaxExecutables == 3

\* What file(1) prints for the executables scanned: outputs that name an
\* architecture and a byte order, one that names a byte order only, one
\* that names an architecture only, and one that names neither.
ScanOutputs ==
    { FileOutputs.mipsel, FileOutputs.mipseb, FileOutputs.armel,
      FileOutputs.x86_64,
      <<"MIPS", "EB ECOFF executable">>,
      FileOutputs.script }

\* main on one file whose rootfs holds one to MaxExecutables executables
\* below /bin.
ArchInit ==
    /\ \E n \in 1..MaxExecutables :
        \E q \in [1..n -> ScanOutputs] :
          inputFiles =
            <<Firmware(<<"1">>, TRUE,
                       [kind |-> "file",
                        members |-> [i \in 1..n |->
                            Member(<<".", Slash, "bin", Slash, "t" \o ToString(i)>>,
                                   "file", q[i])]],
                       TRUE, Kernel)>>
    /\ dbIP \in Hosts
    /\ MainStart

SpecArch == ArchInit /\ [][MainNext]_vars

----------------------------------------------------------------------------
(* The catalog operations called one by one                                *)

\* The most catalog operations called in a row.
MaxCalls == 2

\* The file lists and link lists handed to the operations.
FileLists == {getFilesInfo(r) : r \in {TarballOf("mipsel"), [kind |-> "file", members |-> <<>>]}}
LinkLists == {getLinksInfo(r) : r \in {TarballOf("mipsel"), [kind |-> "file", members |-> <<>>]}}

\* The operation op was called with the host host and ended as r tells.
Called(op, host, r) ==
    /\ emPc = "catalog"
    /\ Len(outcomes) < MaxCalls
    /\ outcomes' = Append(outcomes, [op |-> op, host |-> host, st |-> r.st,
                                     ret |-> r.ret, conns |-> r.conns])
    /\ dbConns' = dbConns + r.conns
    /\ UNCHANGED <<hoVars, paVars, gVars, prVars, fs, inputFiles, dbIP, mIdx, emPc, em, imagesDir, emErr>>

CallBrandLookup ==
    /\ emPc = "catalog"
    /\ \E host \in Hosts, db \in DbOutcomes :
          Called("brandLookup", host, BrandLookup(host, db))

CallUpdateDbImageInfo ==
    /\ emPc = "catalog"
    /\ \E host \in Hosts, db \in DbOutcomes, iid \in {<<>>, <<"1">>} :
          Called("updateDbImageInfo", host, updateDbImageInfo(host, iid, db))

CallGetObjectIds ==
    /\ emPc = "catalog"
    /\ \E host \in Hosts, db \in DbOutcomes, fileList \in FileLists :
          Called("getObjectIds", host, getObjectIds(fileList, host, db))

CallInsertObjectsToImage ==
    /\ emPc = "catalog"
    /\ \E host \in Hosts, db \in DbOutcomes, fileList \in FileLists :
          Called("insertObjectsToImage", host, insertObjectsToImage(fileList, host, db))

CallInsertLinksToImage ==
    /\ emPc = "catalog"
    /\ \E host \in Hosts, db \in DbOutcomes, links \in LinkLists :
          Called("insertLinksToImage", host, insertLinksToImage(links, host, db))

CallDumpObjectsToDB ==
    /\ emPc = "catalog"
    /\ \E host \in Hosts, db \in DbOutcomes,
          r \in {TarballOf("mipsel"), [kind |-> "file", members |-> <<>>]} :
          Called("dumpObjectsToDB", host,
                 dumpObjectsToDB(host, [iid |-> <<"1">>, filesystemPath |-> <<"images">>], r, db))

CatalogNext ==
    \/ CallBrandLookup
    \/ CallUpdateDbImageInfo
    \/ CallGetObjectIds
    \/ CallInsertObjectsToImage
    \/ CallInsertLinksToImage
    \/ CallDumpObjectsToDB

CatalogInit ==
    /\ PathIdle
    /\ HostIdle
    /\ GuestIdle
    /\ PrepareIdle
    /\ fs = <<>>
    /\ inputFiles = <<>>
    /\ dbIP = <<>>
    /\ mIdx = 0
    /\ emPc = "catalog"
    /\ em = <<>>
    /\ imagesDir = <<>>
    /\ dbConns = 0
    /\ outcomes = <<>>
    /\ emErr = <<>>

SpecCatalog == CatalogInit /\ [][CatalogNext]_vars

----------------------------------------------------------------------------
(* validateInits: the init list                                            *)

\* /firmadyne/init on the host.
InitListFile == Comps(JoinPath(Root, <<"firmadyne", "init">>))

\* C4: when validateInits has just returned (findServices is the next call),
\* every path written to /firmadyne/init but the final /firmadyne/preInit.sh
\* resolves in the guest to a regular file.
WrittenInitsAreFiles ==
    pc = "findServices" =>
        /\ fs[InitListFile].val = InitLines(verifiedInits)
        /\ \A i \in 1..(Len(verifiedInits) - 1) :
              isFileInGuest(fs, Root, verifiedInits[i]) = "True"

\* C5: whenever /firmadyne/init exists, its last line is exactly
\* /firmadyne/preInit.sh followed by a line feed.
LastLineIsPreInit ==
    InitListFile \in DOMAIN fs =>
        /\ fs[InitListFile].kind = "file"
        /\ EndsWith(fs[InitListFile].val, PreInit \o <<LF>>)
        /\ \/ Len(fs[InitListFile].val) = Len(PreInit) + 1
           \/ fs[InitListFile].val[Len(fs[InitListFile].val) - Len(PreInit) - 1] = LF

\* validateInits has emitted a list that holds a candidate besides the
\* fallback.
InitListWithCandidates ==
    /\ pc = "findServices"
    /\ Len(verifiedInits) > 1
    /\ fs[InitListFile].val = InitLines(verifiedInits)

\* C6: candidates that are neither in the image nor have a file of their
\* name anywhere in it are dropped without error, also when one of /bin,
\* /sbin, /usr/bin, /usr/sbin is missing: with nothing else to find,
\* validateInits completes and /firmadyne/init holds only the fallback.
UnresolvableInitsAreDropped ==
    (/\ pc \notin {"initFirmadyne", "validateInits"}
     /\ argInits # <<>>
     /\ \A i \in DOMAIN argInits :
           /\ ~lexists(img, guestToHostPath(Root, argInits[i]))
           /\ \A c \in DOMAIN img : <<c[Len(c)]>> # basename(argInits[i])
     /\ ~lexists(img, guestToHostPath(Root, Gp(<<"init">>)))
     /\ \A c \in DOMAIN img : c[Len(c)] \notin {"rcS", "preinit", "preinitMT"})
    => /\ ~(err # <<>> /\ err[1] = "validateInits")
       /\ fs[InitListFile].val = PreInit \o <<LF>>

\* C7: no guest file is written twice to /firmadyne/init; two path strings
\* name the same guest file when they have the same components.
NoInitWrittenTwice ==
    pc = "findServices" =>
        \A i, j \in DOMAIN verifiedInits :
            i # j => Comps(verifiedInits[i]) # Comps(verifiedInits[j])

----------------------------------------------------------------------------
(* findServices: the primary service                                       *)

\* The entries of the service table whose guest path exists in the image.
PresentServices ==
    {i \in DOMAIN ServiceTable : existsInGuest(img, Root, ServiceTable[i].path) = "True"}

\* C8: once findServices has returned, the returned map holds exactly the
\* present paths with their commands, and when a service is present
\* /firmadyne/service and /firmadyne/service_name hold the command and the
\* name of the first present entry of the table.
FirstPresentServiceIsPrimary ==
    (Len(log) >= 3 /\ log[3] = "findServices") =>
        /\ DOMAIN foundServices = {ServiceTable[i].path : i \in PresentServices}
        /\ \A i \in PresentServices :
              foundServices[ServiceTable[i].path] = ServiceTable[i].cmd
        /\ PresentServices # {} =>
              /\ fs[Comps(JoinPath(Root, <<"firmadyne", "service">>))]
                    = FileNode(ServiceTable[MinOf(PresentServices)].cmd \o <<LF>>)
              /\ fs[Comps(JoinPath(Root, <<"firmadyne", "service_name">>))]
                    = FileNode(ServiceTable[MinOf(PresentServices)].name \o <<LF>>)
        /\ PresentServices = {} =>
              /\ Comps(JoinPath(Root, <<"firmadyne", "service">>)) \notin DOMAIN fs
              /\ Comps(JoinPath(Root, <<"firmadyne", "service_name">>)) \notin DOMAIN fs

\* findServices has returned on an image with several services, the first
\* entry of the table not among them.
SeveralServicesPresent ==
    /\ Len(log) >= 3
    /\ log[3] = "findServices"
    /\ Cardinality(PresentServices) >= 3
    /\ 1 \notin PresentServices

----------------------------------------------------------------------------
(* populateDev: the device nodes                                           *)

\* C9: after populateDev (it returned or it raised), either /dev was left
\* alone because it held more than 5 entries when populateDev was called
\* (the entries of the image and /dev/pts, which fixFileSystem creates
\* before), or the stage completed and every node of the table exists with
\* its declared type, major, minor and permissions.
DevPopulatedOrLeftAlone ==
    (\/ \E i \in DOMAIN log : log[i] = "populateDev"
     \/ err # <<>> /\ err[1] = "populateDev") =>
        \/ Cardinality({c \in DOMAIN img : Len(c) = 3 /\ SubSeq(c, 1, 2) = <<"mnt", "dev">>}
                           \cup {<<"mnt", "dev", "pts">>}) > DevThreshold
        \/ /\ \E i \in DOMAIN log : log[i] = "populateDev"
           /\ \A i \in DOMAIN NodesToCreate :
                 /\ Comps(Root \o NodesToCreate[i].path) \in DOMAIN fs
                 /\ fs[Comps(Root \o NodesToCreate[i].path)]
                       = DevNode(NodesToCreate[i].type, NodesToCreate[i].major,
                                 NodesToCreate[i].minor, NodesToCreate[i].perms)

----------------------------------------------------------------------------
(* prepareImage: the order of the calls                                    *)

\* /sbin/reboot on the host.
RebootFile == Comps(guestToHostPath(Root, Gp(<<"sbin", "reboot">>)))

\* The NVRAM entry written for an httpd that reads rip_multicast.
RipMulticastFile ==
    Comps(JoinPath(Root, <<"firmadyne", "libnvram.override", "rip_multicast">>))

----------------------------------------------------------------------------
(* createReferencedDirectories: /firmadyne/dir_log                         *)

\* /firmadyne/dir_log on the host.
DirLogFile == Comps(JoinPath(Root, <<"firmadyne", "dir_log">>))

\* The lines of a content, without their line feeds.
RECURSIVE LinesOf(_)
LinesOf(content) ==
    IF content = <<>> THEN <<>>
    ELSE LET lfs == {i \in 1..Len(content) : content[i] = LF}
             i == IF lfs = {} THEN Len(content) + 1 ELSE MinOf(lfs)
         IN  <<SubSeq(content, 1, i - 1)>> \o LinesOf(SubSeq(content, i + 1, Len(content)))

DirLogLines == LinesOf(fs[DirLogFile].val)

----------------------------------------------------------------------------
(* initFirmadyne: the skeleton                                             *)

\* /firmadyne, /firmadyne/libnvram and /firmadyne/libnvram.override on the
\* host.
SkeletonDirs ==
    { Comps(JoinPath(Root, <<"firmadyne">>)),
      Comps(JoinPath(Root, <<"firmadyne", "libnvram">>)),
      Comps(JoinPath(Root, <<"firmadyne", "libnvram.override">>)) }

\* C17: when initFirmadyne has just returned, the three directories exist
\* and none of them was in the image the call was made on; and a call of
\* prepareImage on an image that holds /firmadyne gets no further than
\* initFirmadyne, raises there, and leaves the image as it found it.
SkeletonIsNewAndMadeOnce ==
    /\ pc = "validateInits" =>
          \A d \in SkeletonDirs : d \in DOMAIN fs /\ fs[d] = DirNode /\ d \notin DOMAIN img
    /\ Comps(JoinPath(Root, <<"firmadyne">>)) \in DOMAIN img =>
          /\ pc \in {"initFirmadyne", "raised"}
          /\ fs = img
          /\ log = <<>>
          /\ pc = "raised" => err = <<"initFirmadyne", "RuntimeError">>

\* A second call of prepareImage on an image the first call has prepared has
\* raised.
SecondCallRaised ==
    /\ pc = "raised"
    /\ SkeletonDirs \subseteq DOMAIN img
    /\ Comps(JoinPath(Root, <<"firmadyne", "service">>)) \in DOMAIN img \/
       Comps(JoinPath(Root, <<"firmadyne", "init">>)) \in DOMAIN img

----------------------------------------------------------------------------
(* addNvramEntries: the overrides                                          *)

\* /firmadyne/libnvram.override/<key> on the host.
OverrideFile(key) == Comps(JoinPath(Root, <<"firmadyne", "libnvram.override", key>>))

\* The binary of rule i resolves in the guest to a regular file whose
\* strings hold the key of the rule.
RuleApplies(i) ==
    LET w == GuestResolve(fs, Root, NvramRules[i].bin)
    IN  /\ w.st = "ok"
        /\ isfile(fs, w.path)
        /\ \E k \in DOMAIN strings(fs[Comps(w.path)].val) :
              Occurs(strings(fs[Comps(w.path)].val)[k], <<NvramRules[i].key>>) # {}

\* C20: once addNvramEntries has ended, for each of the six rules the file
\* /firmadyne/libnvram.override/<key> exists if and only if the binary of the
\* rule resolves in the guest to a regular file whose strings hold the
\* needle, and the file holds exactly the value (nothing for
\* filter_rule_tbl).
OverridesMatchRules ==
    (pc = "returned" \/ (pc = "raised" /\ err[1] = "addNvramEntries")) =>
        \A i \in DOMAIN NvramRules :
            /\ OverrideFile(NvramRules[i].key) \in DOMAIN fs <=> RuleApplies(i)
            /\ OverrideFile(NvramRules[i].key) \in DOMAIN fs =>
                  fs[OverrideFile(NvramRules[i].key)] = FileNode(NvramRules[i].value)

----------------------------------------------------------------------------
(* Emulator.run: the pipeline                                              *)

\* The states of the pipeline a run has passed when run() returns from the
\* statement named by label.  After dumpObjectsToDB has returned True nothing
\* but a log call is left in run().
StatesPassed(label) ==
    CASE label = "extract" -> {"Init"}
      [] label = "collectInfo" -> {"Init", "Extracted"}
      [] label = "checkCompatibility" -> {"Init", "Extracted", "Inspected"}
      [] label = "dumpObjectsToDB" -> {"Init", "Extracted", "Inspected", "Compatible"}
      [] label = "end" -> {"Init", "Extracted", "Inspected", "Compatible", "Catalogued"}

\* The rootfs artifact of input file i in the images directory.
RootfsOf(i) == <<"images", inputFiles[i].tag, "rootfs">>

\* C11: a run for which extraction, inference, the compatibility check and
\* cataloguing have succeeded goes on through Materialised and Rewritten
\* to Done.
CataloguedRunReachesDone ==
    \A i \in DOMAIN outcomes :
        "Catalogued" \in StatesPassed(outcomes[i]) =>
            {"Materialised", "Rewritten", "Done"} \subseteq StatesPassed(outcomes[i])

\* C12: when run() has returned from a stage before cataloguing, the
\* rootfs artifact of that input is not in the images directory.
RootfsRemovedOnEarlyAbort ==
    \A i \in DOMAIN outcomes :
        outcomes[i] \in {"extract", "collectInfo", "checkCompatibility"} =>
            RootfsOf(i) \notin DOMAIN imagesDir

\* C13: the run for a rootfs whose executables file(1) reports as ELF
\* x86-64 ends at the compatibility check, not at the inference.
X86RootfsEndsAtCompatibilityCheck ==
    \A i \in DOMAIN outcomes :
        (/\ inputFiles[i].fsStatus
         /\ inputFiles[i].kStatus
         /\ inputFiles[i].rootfs = TarballOf("x86_64")) =>
            outcomes[i] = "checkCompatibility"

\* The pairs the emulator supports.
SupportedPairs == {<<"MIPS", "LITTLE">>, <<"MIPS", "BIG">>, <<"ARM", "LITTLE">>}

\* C14: checkCompatibility is true for exactly the three supported pairs
\* of the 8 x 3, and run() is at dumpObjectsToDB, or has returned from it or
\* after it, only with a supported pair.
OnlySupportedPairsPassCheck ==
    /\ \A i \in DOMAIN Architectures, j \in DOMAIN Endianesses :
          checkCompatibility(Architectures[i], Endianesses[j])
              <=> <<Architectures[i], Endianesses[j]>> \in SupportedPairs
    /\ emPc = "dumpObjectsToDB" => <<em.architecture, em.endianess>> \in SupportedPairs
    /\ (/\ emPc \in {"construct", "exited"}
        /\ outcomes # <<>>
        /\ outcomes[Len(outcomes)] \in {"dumpObjectsToDB", "end"}) =>
            <<em.architecture, em.endianess>> \in SupportedPairs

\* One input was turned away at the compatibility check with both axes
\* known, and the next is past the check.
RejectedOneAndPassedOne ==
    /\ emPc = "dumpObjectsToDB"
    /\ outcomes = <<"checkCompatibility">>
    /\ inputFiles[1].rootfs = TarballOf("armeb")
    /\ <<em.architecture, em.endianess>> = <<"ARM", "LITTLE">>

\* C15: when main has ended, it has got to the last input file: a failure
\* for one input has not kept main from the inputs after it.
FailureAbortsOneImageOnly ==
    emPc \in {"exited", "raised"} => mIdx >= Len(inputFiles)


\* C29: with a catalog host, run() does not return from the cataloguing
\* step as from a failure.  run() returns there only when dumpObjectsToDB has
\* returned without raising, that is when every catalog operation has
\* succeeded: iid and filesystemPath are set by then.
CataloguingSucceededIsPassed ==
    dbIP # <<>> => \A i \in DOMAIN outcomes : outcomes[i] # "dumpObjectsToDB"
----------------------------------------------------------------------------
(* The catalog without a host                                              *)

\* C18: an operation called with an empty host opens no connection and
\* ends with success: it neither raises nor returns False.
NoHostNoConnection ==
    \A i \in DOMAIN outcomes :
        outcomes[i].host = <<>> =>
            /\ outcomes[i].conns = 0
            /\ outcomes[i].st = "ok"
            /\ outcomes[i].ret # "False"

----------------------------------------------------------------------------
(* inferKernelVersion: the kernel scan                                     *)

\* The string holds "init=" with a token after it.
HasInit(string) ==
    Occurs(string, <<InitEq>>) # {} /\ TokenAfter(string, <<InitEq>>) # <<>>

HasVersion(string) == Occurs(string, <<LinuxVersion, SP>>) # {}

KernelStringsScanned == strings(inputFiles[1].kernel)

\* C19: once collectInfo has returned with the kernel scanned,
\* inferredKernelInitStrings holds, in file order, every string with
\* "init=" and a token after it, also when the string holds "Linux version "
\* as well, inferredKernelInit the token after "init=" of each of them, and
\* kernelVersion the token after "Linux version " of the last string that
\* holds it.
KernelScanCollectsAll ==
    emPc = "checkCompatibility" =>
        /\ em.inferredKernelInitStrings = SelectSeq(KernelStringsScanned, HasInit)
        /\ em.inferredKernelInit =
              [i \in DOMAIN SelectSeq(KernelStringsScanned, HasInit) |->
                  TokenAfter(SelectSeq(KernelStringsScanned, HasInit)[i], <<InitEq>>)]
        /\ SelectSeq(KernelStringsScanned, HasVersion) # <<>> =>
              em.kernelVersion =
                  TokenAfter(SelectSeq(KernelStringsScanned, HasVersion)
                                 [Len(SelectSeq(KernelStringsScanned, HasVersion))],
                             <<LinuxVersion, SP>>)


----------------------------------------------------------------------------
(* populateEtc: the essential files                                        *)

\* What the guest path of essential i resolves to in f: the content of the
\* regular file there, or NoNode's kind when there is none.
EssentialContent(f, i) ==
    The({ IF w.st = "ok" /\ isfile(f, w.path) THEN HostNode(f, w.path, MaxHostLinks).val
          ELSE <<"none">>
        : w \in {GuestResolve(f, Root, Essentials[i].path)} })

\* populateEtc has ended: it returned or it raised.
PopulateEtcEnded ==
    \/ \E i \in DOMAIN log : log[i] = "populateEtc"
    \/ err # <<>> /\ err[1] = "populateEtc"

\* C21: once populateEtc has ended, each of /etc/TZ, /etc/hosts and
\* /etc/passwd resolves in the guest to a non-empty regular file: with the
\* content it had in the image when that was a non-empty file, and with
\* exactly the content of the table otherwise.
EssentialsPresentAfterPopulateEtc ==
    PopulateEtcEnded =>
        \A i \in DOMAIN Essentials :
            EssentialContent(fs, i) =
                IF EssentialContent(img, i) \in {<<>>, <<"none">>}
                THEN Essentials[i].content
                ELSE EssentialContent(img, i)

----------------------------------------------------------------------------
(* populateDev: the threshold                                              *)

\* The entries of /dev in the image as it was unpacked.
UnpackedDevEntries ==
    {c \in DOMAIN img : Len(c) = 3 /\ SubSeq(c, 1, 2) = <<"mnt", "dev">>}

\* C23: populateDev has returned with the device nodes populated (the
\* directory /dev/mtdblock, which no image modelled ships, is there) exactly
\* when /dev of the unpacked image held 5 entries or fewer.
DevPopulatedIffFewUnpackedEntries ==
    (\E i \in DOMAIN log : log[i] = "populateDev") =>
        (<<"mnt", "dev", "mtdblock">> \in DOMAIN fs
            <=> Cardinality(UnpackedDevEntries) <= DevThreshold)

----------------------------------------------------------------------------
(* checkArch: the scan of the executables                                  *)

\* The executables of the rootfs of the input file, in archive order.
ExecutablesScanned == SelectSeq(inputFiles[1].rootfs.members, IsPicked)

\* The architecture of the first executable whose file(1) output names one,
\* UNKNOWN when none does; the same for the byte order.
FirstArchitecture ==
    LET named == {i \in DOMAIN ExecutablesScanned :
                    ArchOf(ExecutablesScanned[i].filetype) # "UNKNOWN"}
    IN  IF named = {} THEN "UNKNOWN" ELSE ArchOf(ExecutablesScanned[MinOf(named)].filetype)

FirstEndianess ==
    LET named == {i \in DOMAIN ExecutablesScanned :
                    EndianOf(ExecutablesScanned[i].filetype, "UNKNOWN") # "UNKNOWN"}
    IN  IF named = {} THEN "UNKNOWN"
        ELSE EndianOf(ExecutablesScanned[MinOf(named)].filetype, "UNKNOWN")

\* C22: once checkArch has returned, the architecture is the one named by
\* the first executable, in archive order, that names one, and the byte
\* order the one named by the first executable that names one: an
\* executable scanned later neither changes a value found earlier nor
\* resets it to UNKNOWN.
FirstMatchWinsPerAxis ==
    emPc \in {"checkCompatibility", "dumpObjectsToDB", "exited"} =>
        /\ em.architecture = FirstArchitecture
        /\ em.endianess = FirstEndianess

----------------------------------------------------------------------------
(* createReferencedDirectories: the mount root                             *)

\* C28: every entry of the host file system lies below the mount root: the
\* image is unpacked there, and no call of prepareImage,
\* createReferencedDirectories among them, creates a directory elsewhere on
\* the host, whatever the strings of the binaries are.
NothingCreatedOutsideRoot ==
    \A c \in DOMAIN fs : StartsWith(c, Comps(Root))
----------------------------------------------------------------------------
(* util.py: checkArch and its scratch directory /tmp/<image id>            *)

\* The scratch directory before the call: absent, left by an earlier run,
\* or left by an earlier run and not writable.
ScratchStates == {"absent", "present", "unwritable"}

\* The scan of line 102 reaches the executable i: none of the executables
\* before it left the loop by the break of line 118.
ScanReaches(executables, i) ==
    /\ i \in 1..Len(executables)
    /\ \E k \in {1, 2} :
          ScanExecutables(SubSeq(executables, 1, i - 1), 1, "UNKNOWN", "UNKNOWN")[k]
              = "UNKNOWN"

\* What may go wrong in the loop of lines 102-118: nothing, tar.extract
\* raises at an executable (line 103), or the call of file(1) raises at an
\* executable (line 105).
NoFailure == [at |-> 0, what |-> "none"]

ScanFailures(tarball) ==
    {NoFailure}
      \cup
    (IF tarball.kind # "file" THEN {}
     ELSE {[at |-> i, what |-> w] :
              i \in {j \in 1..Len(tarball.members) :
                        ScanReaches(SelectSeq(tarball.members, IsPicked), j)},
              w \in {"OSError", "CalledProcessError"}})

\* util.checkArch on the host: line 78 raises before the scratch directory
\* is made; lines 88-97 make it, replacing a writable one and raising on
\* one that is not writable; an exception of lines 103 and 105 leaves the
\* function at once; lines 121-122 remove the directory.
checkArchOnHost(tarball, scratch, failure) ==
    IF tarball.kind # "file"
    THEN [st |-> "IsADirectoryError", made |-> FALSE, scratch |-> scratch]
    ELSE IF scratch = "unwritable"
    THEN [st |-> "PermissionError", made |-> FALSE, scratch |-> scratch]
    ELSE IF failure.at # 0
    THEN [st |-> failure.what, made |-> TRUE, scratch |-> "present"]
    ELSE [st |-> "ok", made |-> TRUE, scratch |-> "absent",
          ret |-> checkArch(tarball).ret]

\* One call of checkArch.
CheckArchCall ==
    /\ scr # <<>>
    /\ scr.pc = "call"
    /\ \E failure \in ScanFailures(scr.tarball) :
          scr' = [scr EXCEPT !.pc = "done",
                             !.res = checkArchOnHost(scr.tarball, scr.scratch, failure)]
    /\ UNCHANGED <<paVars, fs, gVars, prVars, emVars, loops, wk, dbRows, reg>>

\* The tarballs checkArch is called on: one to MaxExecutables executables
\* below /bin, or a directory.
ScratchTarballs ==
    {[kind |-> "dir", members |-> <<>>]}
      \cup
    UNION {{[kind |-> "file",
             members |-> [i \in 1..n |->
                 Member(<<".", Slash, "bin", Slash, "t" \o ToString(i)>>, "file", q[i])]]
            : q \in [1..n -> ScanOutputs]} : n \in 1..MaxExecutables}

ScratchInit ==
    /\ PathIdle
    /\ GuestIdle
    /\ PrepareIdle
    /\ EmulatorIdle
    /\ fs = <<>>
    /\ \E t \in ScratchTarballs, s \in ScratchStates :
          scr = [pc |-> "call", tarball |-> t, scratch |-> s, res |-> <<>>]
    /\ loops = <<>>
    /\ wk = <<>>
    /\ dbRows = <<>>
    /\ reg = <<>>

SpecScratch == ScratchInit /\ [][CheckArchCall]_vars

\* C24: whenever checkArch has ended, by returning or by raising, the
\* scratch directory /tmp/<image id> it made does not exist any more.
ScratchRemovedOnEveryExit ==
    (scr # <<>> /\ scr.pc = "done" /\ scr.res.made) => scr.res.scratch = "absent"
----------------------------------------------------------------------------
(* util.py: loop devices, mountImage, unmountImage and runFsck             *)

\* The workers; worker w works on the raw image w and the mount point w.
Workers == {1, 2}

\* The loop devices of the host.
MaxLoopDevs == 3

\* The most calls one worker makes.
MaxOps == 2

LoopDevs == 1..MaxLoopDevs

\* A loop device that is attached to no file.
FreeDev == [image |-> 0, p1 |-> FALSE, mounted |-> FALSE]

\* losetup -j <raw image>: the devices attached to the image, and the
\* first of the lines printed.
DevsOf(image) == {d \in LoopDevs : loops[d].image = image}

FirstDevOf(image) == MinOf(DevsOf(image))

\* The devices losetup -f may take.
FreeDevs == {d \in LoopDevs : loops[d].image = 0}

\* A worker between two calls.
IdleWorker == [op |-> "none", pc |-> "idle", own |-> 0, dev |-> 0, ran |-> FALSE,
               st |-> "ok", n |-> 0]

Raise(w, what) == [wk EXCEPT ![w].pc = "raised", ![w].st = what]

\* A worker calls mountImage (the checks of lines 505-519 pass),
\* unmountImage (lines 552-569: the device is looked up in /proc/mounts) or
\* runFsck (lines 683-692: an image that is attached is refused).
StartCall(w) ==
    /\ wk[w].pc \in {"idle", "done", "raised"}
    /\ wk[w].n < MaxOps
    /\ \E op \in {"mountImage", "unmountImage", "runFsck"} :
        LET c == [IdleWorker EXCEPT !.op = op, !.n = wk[w].n + 1] IN
        \/ /\ op = "mountImage"
           /\ wk' = [wk EXCEPT ![w] = [c EXCEPT !.pc = "attach"]]
        \/ /\ op = "unmountImage"
           /\ IF {d \in DevsOf(w) : loops[d].mounted} = {}
              THEN wk' = [wk EXCEPT ![w] = [c EXCEPT !.pc = "raised",
                                                     !.st = "RuntimeError: not mounted"]]
              ELSE \E d \in {e \in DevsOf(w) : loops[e].mounted} :
                      wk' = [wk EXCEPT ![w] = [c EXCEPT !.pc = "umount", !.dev = d]]
        \/ /\ op = "runFsck"
           /\ wk' = [wk EXCEPT ![w] =
                        IF DevsOf(w) # {}
                        THEN [c EXCEPT !.pc = "raised", !.st = "RuntimeError: attached"]
                        ELSE [c EXCEPT !.pc = "attach"]]
    /\ UNCHANGED <<paVars, fs, gVars, prVars, emVars, scr, loops, dbRows, reg>>

\* addPartition, line 479: losetup -Pf attaches the image to the first free
\* device; the node of the first partition appears or does not.
Attach(w) ==
    /\ wk[w].pc = "attach"
    /\ FreeDevs # {}
    /\ \E node \in BOOLEAN :
          loops' = [loops EXCEPT ![MinOf(FreeDevs)] =
                        [image |-> w, p1 |-> node, mounted |-> FALSE]]
    /\ wk' = [wk EXCEPT ![w].pc = "derive", ![w].own = MinOf(FreeDevs)]
    /\ UNCHANGED <<paVars, fs, gVars, prVars, emVars, scr, dbRows, reg>>

\* addPartition, lines 482-492: the first device losetup -j lists, with
\* "p1"; RuntimeError when that node does not exist.
Derive(w) ==
    /\ wk[w].pc = "derive"
    /\ wk' = IF DevsOf(w) = {} THEN Raise(w, "RuntimeError: no loop device")
             ELSE IF ~loops[FirstDevOf(w)].p1 THEN Raise(w, "RuntimeError: no p1")
             ELSE [wk EXCEPT ![w].dev = FirstDevOf(w),
                             ![w].pc = IF wk[w].op = "mountImage" THEN "mount"
                                       ELSE "e2fsck"]
    /\ UNCHANGED <<paVars, fs, gVars, prVars, emVars, scr, loops, dbRows, reg>>

\* mountImage, lines 523-525: mount succeeds or runAsRoot raises.
Mount(w) ==
    /\ wk[w].pc = "mount"
    /\ \/ /\ loops' = [loops EXCEPT ![wk[w].dev].mounted = TRUE]
          /\ wk' = [wk EXCEPT ![w].pc = "done"]
       \/ /\ wk' = Raise(w, "RuntimeError: mount")
          /\ UNCHANGED loops
    /\ UNCHANGED <<paVars, fs, gVars, prVars, emVars, scr, dbRows, reg>>

\* unmountImage, line 572: umount succeeds or runAsRoot raises.
Umount(w) ==
    /\ wk[w].pc = "umount"
    /\ \/ /\ loops' = [loops EXCEPT ![wk[w].dev].mounted = FALSE]
          /\ wk' = [wk EXCEPT ![w].pc = "detach"]
       \/ /\ wk' = Raise(w, "RuntimeError: umount")
          /\ UNCHANGED loops
    /\ UNCHANGED <<paVars, fs, gVars, prVars, emVars, scr, dbRows, reg>>

\* runFsck, lines 696-699: e2fsck succeeds or runAsRoot raises RuntimeError;
\* the finally clause runs in both cases.
E2fsck(w) ==
    /\ wk[w].pc = "e2fsck"
    /\ \E st \in {"ok", "RuntimeError: e2fsck"} :
          wk' = [wk EXCEPT ![w].pc = "detach", ![w].ran = TRUE, ![w].st = st]
    /\ UNCHANGED <<paVars, fs, gVars, prVars, emVars, scr, loops, dbRows, reg>>

\* removePartition, lines 534-540: losetup -d of the device; the call
\* returns, or the exception of e2fsck goes on.
Detach(w) ==
    /\ wk[w].pc = "detach"
    /\ loops' = [loops EXCEPT ![wk[w].dev] = FreeDev]
    /\ wk' = [wk EXCEPT ![w].pc = IF wk[w].st = "ok" THEN "done" ELSE "raised",
                        ![w].own = IF wk[w].own = wk[w].dev THEN 0 ELSE wk[w].own]
    /\ UNCHANGED <<paVars, fs, gVars, prVars, emVars, scr, dbRows, reg>>

\* util.py holds no lock: every step of every worker may come next.
LoopNext ==
    \E w \in Workers :
        \/ StartCall(w)
        \/ Attach(w)
        \/ Derive(w)
        \/ Mount(w)
        \/ Umount(w)
        \/ E2fsck(w)
        \/ Detach(w)

LoopInit ==
    /\ PathIdle
    /\ GuestIdle
    /\ PrepareIdle
    /\ EmulatorIdle
    /\ fs = <<>>
    /\ scr = <<>>
    /\ loops = [d \in LoopDevs |-> FreeDev]
    /\ wk = [w \in Workers |-> IdleWorker]
    /\ dbRows = <<>>
    /\ reg = <<>>

SpecLoop == LoopInit /\ [][LoopNext]_vars

Ended(w, op) == wk # <<>> /\ wk[w].op = op /\ wk[w].pc \in {"done", "raised"}

\* C25: runFsck on an image that is attached raises without attaching a
\* device and without running e2fsck, and whenever runFsck has ended, by
\* returning or by raising, the loop device it attached is detached.
FsckDetachesOnEveryExit ==
    \A w \in Workers :
        Ended(w, "runFsck") =>
            /\ wk[w].own = 0
            /\ wk[w].st = "RuntimeError: attached" => ~wk[w].ran

\* C26: whenever mountImage has raised, the loop device it attached is
\* detached.
FailedMountDetaches ==
    \A w \in Workers :
        (Ended(w, "mountImage") /\ wk[w].pc = "raised") => wk[w].own = 0

\* A worker is between its attach and the end of its mount, or between its
\* umount and its detach.
InCriticalSection(w) ==
    \/ wk[w].op = "mountImage" /\ wk[w].pc \in {"derive", "mount"}
    \/ wk[w].op = "unmountImage" /\ wk[w].pc = "detach"

\* C27: no two workers are inside the sections {attach, derive p1, mount}
\* and {umount, detach} at the same time.
CriticalSectionsExclusive ==
    wk # <<>> =>
        \A w1 \in Workers, w2 \in Workers :
            w1 # w2 => ~(InCriticalSection(w1) /\ InCriticalSection(w2))
----------------------------------------------------------------------------
(* util.py, dbInterface.py: the rows of object and object_to_image         *)

\* The most regular files of one image.
MaxFiles == 2

\* The hashes of the files.
FileHashes == {<<"h1">>, <<"h2">>}

\* The schema of the catalog is not part of the program: the hash of
\* object is unique or not, object_to_image.oid is a foreign key or not.
Schemas == [unique : BOOLEAN, foreignKey : BOOLEAN]

\* Line 239: every hash in quotes, joined by commas.
RECURSIVE QuotedJoin(_, _)
QuotedJoin(hashes, i) ==
    IF i > Len(hashes) THEN <<>>
    ELSE (IF i = 1 THEN <<>> ELSE <<",">>) \o <<"'">> \o hashes[i] \o <<"'">>
            \o QuotedJoin(hashes, i + 1)

\* Lines 240-244: the query binds the one string hashesStr to its one
\* placeholder; the rows are those whose hash is that string.
SelectObjects(hashes, db) ==
    LET rows == {o \in db.objects : o.hash = QuotedJoin(hashes, 1)} IN
    [h \in {o.hash : o \in rows} |-> (CHOOSE o \in rows : o.hash = h).id]

\* d[k] = v of a Python dict.
DictSet(d, k, v) == [x \in DOMAIN d \cup {k} |-> IF x = k THEN v ELSE d[x]]

\* d.update(e)
DictUpdate(d, e) == [x \in DOMAIN d \cup DOMAIN e |-> IF x \in DOMAIN e THEN e[x] ELSE d[x]]

\* Lines 275-281 from the hash i on, inside one transaction: each INSERT
\* takes the next id of the sequence and returns it; tx holds the rows
\* of the transaction.
RECURSIVE InsertEach(_, _, _, _, _, _)
InsertEach(hashes, i, db, schema, tx, newObjects) ==
    IF i > Len(hashes) THEN [st |-> "ok", seq |-> db.seq, tx |-> tx, ret |-> newObjects]
    ELSE IF schema.unique /\ \E o \in db.objects \cup tx : o.hash = hashes[i]
    THEN [st |-> "UniqueViolation", seq |-> db.seq + 1, tx |-> tx, ret |-> newObjects]
    ELSE InsertEach(hashes, i + 1, [db EXCEPT !.seq = db.seq + 1], schema,
                    tx \cup {[id |-> db.seq, hash |-> hashes[i]]},
                    DictSet(newObjects, hashes[i], db.seq))

\* util.createNewObjects: DBInterface.__exit__ (dbInterface.py 55-59)
\* closes the cursor and the connection and nothing commits, so the rows of
\* the transaction are dropped; the sequence keeps what it handed out.
createNewObjects(hashes, db, schema) ==
    IF hashes = <<>> THEN [st |-> "ok", ret |-> <<>>, db |-> db]
    ELSE The({ [st |-> r.st, ret |-> r.ret, db |-> [db EXCEPT !.seq = r.seq]]
             : r \in {InsertEach(hashes, 1, db, schema, {}, <<>>)} })

\* util.getObjectIds with addMissing=True on the rows of the catalog.
getObjectIdsRows(hashes, db, schema) ==
    IF hashes = <<>> THEN [st |-> "ok", ret |-> <<>>, db |-> db]
    ELSE LET objectIds == SelectObjects(hashes, db)
             missingHashes == SelectSeq(hashes, LAMBDA h : h \notin DOMAIN objectIds)
         IN The({ [c EXCEPT !.ret = DictUpdate(objectIds, c.ret)]
                : c \in {createNewObjects(missingHashes, db, schema)} })

\* util.insertObjectsToImage on the rows of the catalog: one row for every
\* hash of objectIds, committed at line 325; an oid that is no object
\* fails the statement when oid is a foreign key.
insertObjectsToImageRows(iid, objectIds, db, schema) ==
    IF DOMAIN objectIds = {} THEN [st |-> "ok", db |-> db]
    ELSE IF schema.foreignKey
            /\ \E h \in DOMAIN objectIds : \A o \in db.objects : o.id # objectIds[h]
    THEN [st |-> "ForeignKeyViolation", db |-> db]
    ELSE [st |-> "ok",
          db |-> [db EXCEPT !.links =
                      @ \cup {[iid |-> iid, oid |-> objectIds[h]] : h \in DOMAIN objectIds}]]

\* dumpObjectsToDB, first call: getObjectIds on the files of the image.
RegGetObjectIds ==
    /\ reg # <<>>
    /\ reg.pc = "getObjectIds"
    /\ LET r == getObjectIdsRows(reg.hashes, dbRows, reg.schema) IN
          /\ dbRows' = r.db
          /\ reg' = [reg EXCEPT !.pc = IF r.st = "ok" THEN "insertObjectsToImage"
                                       ELSE "raised",
                                !.st = r.st, !.objectIds = r.ret]
    /\ UNCHANGED <<paVars, fs, gVars, prVars, emVars, scr, loops, wk>>

\* dumpObjectsToDB, second call: insertObjectsToImage with the ids returned.
RegInsertObjectsToImage ==
    /\ reg # <<>>
    /\ reg.pc = "insertObjectsToImage"
    /\ LET r == insertObjectsToImageRows(<<"1">>, reg.objectIds, dbRows, reg.schema) IN
          /\ dbRows' = r.db
          /\ reg' = [reg EXCEPT !.pc = IF r.st = "ok" THEN "done" ELSE "raised",
                                !.st = r.st]
    /\ UNCHANGED <<paVars, fs, gVars, prVars, emVars, scr, loops, wk>>

RegNext ==
    \/ RegGetObjectIds
    \/ RegInsertObjectsToImage

\* The catalog holds objects of some of the hashes; the image has up to
\* MaxFiles regular files.
RegInit ==
    /\ PathIdle
    /\ GuestIdle
    /\ PrepareIdle
    /\ EmulatorIdle
    /\ fs = <<>>
    /\ scr = <<>>
    /\ loops = <<>>
    /\ wk = <<>>
    /\ \E known \in SUBSET FileHashes :
          dbRows = [objects |-> {[id |-> IF h = <<"h1">> THEN 1 ELSE 2, hash |-> h]
                                    : h \in known},
                    links |-> {},
                    seq |-> 3]
    /\ \E hashes \in SeqsUpTo(FileHashes, MaxFiles), schema \in Schemas :
          reg = [pc |-> "getObjectIds", hashes |-> hashes, schema |-> schema,
                 objectIds |-> <<>>, st |-> "ok"]

SpecRegister == RegInit /\ [][RegNext]_vars

\* C30: every oid of a committed object_to_image row is the id of a
\* committed object row, and the ids getObjectIds has returned are ids of
\* committed object rows before insertObjectsToImage refers to them.
CatalogReferencesCommitted ==
    reg # <<>> =>
        /\ \A l \in dbRows.links : \E o \in dbRows.objects : o.id = l.oid
        /\ (reg.pc \in {"insertObjectsToImage", "done"}) =>
              \A h \in DOMAIN reg.objectIds :
                  \E o \in dbRows.objects : o.id = reg.objectIds[h]
----------------------------------------------------------------------------
(* Round trips through the two translations                               *)

MaxPathLen == 3

PathChars == {Slash, "m", "x"}

\* Strings that start with "/".
RootedPaths == {s \in SeqsUpTo(PathChars, MaxPathLen) : StartsWith(s, <<Slash>>)}

PathInit ==
    /\ paR \in RootedPaths
    /\ paDir \in {"guestFirst", "hostFirst"}
    /\ paIn \in IF paDir = "guestFirst"
                THEN RootedPaths
                ELSE {paR \o t : t \in SeqsUpTo(PathChars, MaxPathLen)}
    /\ paOut = paIn
    /\ paPc = "start"
    /\ fs = <<>>
    /\ GuestIdle
    /\ PrepareIdle
    /\ EmulatorIdle
    /\ HostIdle

\* guestToHostPath(R, P), the first leg of hostToGuest(R, guestToHost(R, P)).
PathGuestToHost ==
    /\ \/ paPc = "start" /\ paDir = "guestFirst" /\ paPc' = "half"
       \/ paPc = "half" /\ paDir = "hostFirst" /\ paPc' = "done"
    /\ paOut # ValueError
    /\ paOut' = guestToHostPath(paR, paOut)
    /\ UNCHANGED <<hoVars, paR, paIn, paDir, fs, gVars, prVars, emVars>>

\* hostToGuestPath(R, H), the first leg of guestToHost(R, hostToGuest(R, H)).
PathHostToGuest ==
    /\ \/ paPc = "start" /\ paDir = "hostFirst" /\ paPc' = "half"
       \/ paPc = "half" /\ paDir = "guestFirst" /\ paPc' = "done"
    /\ paOut # ValueError
    /\ paOut' = hostToGuestPath(paR, paOut)
    /\ UNCHANGED <<hoVars, paR, paIn, paDir, fs, gVars, prVars, emVars>>

PathNext == PathGuestToHost \/ PathHostToGuest

SpecPath == PathInit /\ [][PathNext]_vars

\* C1: for every mount root R and path P that both start with "/",
\* hostToGuestPath(R, guestToHostPath(R, P)) = P, and for every host path H
\* under R, guestToHostPath(R, hostToGuestPath(R, H)) = H.
RoundTripIdentity == paPc = "done" => paOut = paIn

====
